---- MODULE Spec2Model ----
(***************************************************************************)
(* State-machine model of the spectator overlay's event ingestion and      *)
(* state reconciliation pipeline (phantasy-bot/pokemon-llm, front end).    *)
(*                                                                         *)
(*   - the Fire Emblem store  (App, handleGameUpdate, addLog, addAiThought)*)
(*   - the thought pipeline   (StreamOverlay effect, useThoughts)          *)
(*   - the best-effort vision screenshot loader (VisionScreenshot)         *)
(*   - the Pokemon-mode store (App, handleGameUpdate)                      *)
(*   - the strict-sync vision screenshot (VisionScreenshot, base64Data)    *)
(*   - the analysis panel     (AnalysisPanel, formatVisionAnalysisAsList)  *)
(*   - the chapter tree       (chapterData, buildChapterTreeState)         *)
(*   - the unit display and the text parser (transformers)                 *)
(*                                                                         *)
(* A JavaScript object is a function from its own keys to values; a key    *)
(* that is absent from the object is absent from the DOMAIN.  A message    *)
(* without a payload is a record without a `payload` field.                *)
(***************************************************************************)
EXTENDS Integers, Sequences, FiniteSets, TLC

VARIABLES
    \* --- Fire Emblem store (useState cells of App) ---
    gameState,          \* GameState mapping
    chronicle,          \* ChronicleEntry[]
    currentScreenshot,  \* string
    currentSessionId,   \* string
    logs,               \* LogEntry[] (newest first)
    aiThoughts,         \* string[]  (oldest first), each "[time] thought"
    \* --- StreamOverlay and useThoughts ---
    thoughts,               \* ThoughtEntry[] (oldest first)
    lastThoughtRef,         \* useThoughts: the last raw thought accepted
    lastProcessedIndexRef,  \* StreamOverlay: index of the last aiThoughts element handled
    effectPending,          \* a render with new aiThoughts awaits its effect
    \* --- VisionScreenshot (best-effort loader) ---
    timestamp,          \* the timestamp prop of the current render
    screenshotSrc,      \* image reference
    isLoading,
    error,
    retryCount,
    preloads,           \* Image preloads in flight, each with its closure's data
    timers,             \* retry timers armed by setTimeout
    \* --- Pokemon-mode store (useState cells of App) ---
    pkGameState,
    pkLogs,
    pkMemoryWrite,
    \* --- Fire Emblem store, remaining useState cells of App ---
    visionState,        \* { description: string | null, processing: boolean }
    memoryWrite,        \* string | null
    aiProcessing,       \* { status, model? }
    showAllSessions,    \* boolean
    \* --- VisionScreenshot (strict sync) ---
    base64Data,             \* the base64Data prop of the current render
    strictScreenshotSrc,    \* image reference
    strictIsLoading,
    strictError,
    strictEffectPending,    \* a render with a new base64Data awaits its effect
    \* --- environment ---
    now,                \* the wall clock read by Date.now() / new Date()
    \* --- history (not program state) ---
    trace,              \* the messages dispatched so far, in arrival order (the
                        \* loader and strict-sync specifications keep the latest only)
    retained            \* the log entries addLog has stored so far, in arrival order

storeVars == <<gameState, chronicle, currentScreenshot, currentSessionId,
               logs, aiThoughts>>
viewVars == <<thoughts, lastThoughtRef, lastProcessedIndexRef, effectPending>>
visionVars == <<timestamp, screenshotSrc, isLoading, error, retryCount,
                preloads, timers>>
pkVars == <<pkGameState, pkLogs, pkMemoryWrite>>
panelVars == <<visionState, memoryWrite, aiProcessing, showAllSessions>>
strictVars == <<base64Data, strictScreenshotSrc, strictIsLoading, strictError,
                strictEffectPending>>
histVars == <<trace, retained>>
vars == <<storeVars, viewVars, visionVars, pkVars, panelVars, strictVars, now,
          histVars>>

----------------------------------------------------------------------------
(* Bounds *)
MaxEvents == 3          \* messages dispatched in the store specifications

----------------------------------------------------------------------------
(* Generic helpers *)

SetMax(S) == CHOOSE x \in S : \A y \in S : y <= x

Last(s) == s[Len(s)]

\* JavaScript truthiness of an optional string field of object o
TruthyStr(o, k) == k \in DOMAIN o /\ o[k] # ""

\* the same test for a string that is kept as its sequence of characters
TruthyText(o, k) == k \in DOMAIN o /\ o[k] # <<>>

HasPayload(m) == "payload" \in DOMAIN m

----------------------------------------------------------------------------
(* Text helpers.  A text that is taken apart is a sequence of one-character *)
(* strings.                                                                 *)

DigitChars == <<"0", "1", "2", "3", "4", "5", "6", "7", "8", "9">>

IsDigit(c) == \E i \in 1..10 : DigitChars[i] = c

\* the decimal numeral of n, for 0 <= n <= 99
Decimal(n) ==
    IF n < 10 THEN <<DigitChars[n + 1]>>
    ELSE <<DigitChars[(n \div 10) + 1], DigitChars[(n % 10) + 1]>>

\* trim()
Trim(s) ==
    LET inner == {i \in 1..Len(s) : s[i] # " " /\ s[i] # "\n"} IN
    IF inner = {} THEN <<>>
    ELSE SubSeq(s, CHOOSE i \in inner : \A j \in inner : i <= j, SetMax(inner))

LowerChars ==
    <<"a", "b", "c", "d", "e", "f", "g", "h", "i", "j", "k", "l", "m",
      "n", "o", "p", "q", "r", "s", "t", "u", "v", "w", "x", "y", "z">>

UpperChars ==
    <<"A", "B", "C", "D", "E", "F", "G", "H", "I", "J", "K", "L", "M",
      "N", "O", "P", "Q", "R", "S", "T", "U", "V", "W", "X", "Y", "Z">>

\* toUpperCase()
ToUpperCase(s) ==
    [i \in 1..Len(s) |->
        IF \E k \in 1..26 : LowerChars[k] = s[i]
        THEN UpperChars[CHOOSE k \in 1..26 : LowerChars[k] = s[i]]
        ELSE s[i]]

\* split(sep) for a one-character separator
RECURSIVE Split(_, _)
Split(s, sep) ==
    LET at == {i \in 1..Len(s) : s[i] = sep} IN
    IF at = {} THEN <<s>>
    ELSE LET i == CHOOSE j \in at : \A k \in at : j <= k IN
         <<SubSeq(s, 1, i - 1)>> \o Split(SubSeq(s, i + 1, Len(s)), sep)

\* join(sep)
RECURSIVE Join(_, _)
Join(pieces, sep) ==
    IF pieces = <<>> THEN <<>>
    ELSE IF Len(pieces) = 1 THEN pieces[1]
    ELSE pieces[1] \o sep \o Join(Tail(pieces), sep)

\* map((s) => s.trim())
TrimAll(pieces) == [i \in DOMAIN pieces |-> Trim(pieces[i])]

\* filter(Boolean) on strings
NonEmpty(piece) == piece # <<>>

IsUpper(c) == \E k \in 1..26 : UpperChars[k] = c
IsLetter(c) == IsUpper(c) \/ \E k \in 1..26 : LowerChars[k] = c
IsSpace(c) == c = " " \/ c = "\n"

\* the position of the first character of s at or after i that is no white
\* space, Len(s) + 1 when there is none
SkipSpace(s, i) ==
    LET at == {j \in i..Len(s) : ~IsSpace(s[j])} IN
    IF at = {} THEN Len(s) + 1 ELSE CHOOSE j \in at : \A k \in at : j <= k

----------------------------------------------------------------------------
(* Fire Emblem store: constants *)

INITIAL_GAME_STATE ==
    [phase |-> "Player", turnNumber |-> 0, units |-> <<>>]

----------------------------------------------------------------------------
(* Fire Emblem store: the game mapping *)

\* a mutation of ShallowMerge: the spread operands swapped ({...p, ...prev})
ShallowMerge_PrevWins(prev, p) ==
    [k \in DOMAIN prev \cup DOMAIN p |->
        IF k \in DOMAIN prev THEN prev[k] ELSE p[k]]

\* ({ ...prev, ...p })
ShallowMerge(prev, p) ==
    [k \in DOMAIN prev \cup DOMAIN p |->
        IF k \in DOMAIN p THEN p[k] ELSE prev[k]]

\* a mutation of SnapshotReplace: the snapshot merged into the previous game
SnapshotReplace_Merged(prev, p) ==
    [k \in DOMAIN prev \cup DOMAIN p |->
        IF k \in DOMAIN p THEN p[k] ELSE prev[k]]

\* setGameState(p): the value form of the setter ignores the previous state
SnapshotReplace(prev, p) == p

----------------------------------------------------------------------------
(* Fire Emblem store: the chronicle *)

NoId == ""

\* a mutation of ChronicleUpsert: the duplicate filter left out
ChronicleUpsert_NoFilter(prev, update) == Append(prev, update)

\* a mutation of ChronicleUpsert: the test of update.id inverted
ChronicleUpsert_InvertedIdTest(prev, update) ==
    IF TruthyStr(update, "id")
    THEN Append(prev, update)
    ELSE LET withoutDup == SelectSeq(prev, LAMBDA entry :
                               ~("id" \in DOMAIN entry /\ entry.id = NoId))
         IN  Append(withoutDup, update)

\* the functional updater of setChronicle for a chronicle_update delta
ChronicleUpsert(prev, update) ==
    IF ~TruthyStr(update, "id")
    THEN Append(prev, update)
    ELSE LET withoutDup == SelectSeq(prev, LAMBDA entry :
                               ~("id" \in DOMAIN entry /\ entry.id = update.id))
         IN  Append(withoutDup, update)

----------------------------------------------------------------------------
(* Fire Emblem store: the action log *)

GAMEPLAY_LOG_TYPES == {"movement", "combat", "action", "battle", "ai"}

LogCapacity == 100

\* isKnownLogCategory
IsKnownLogCategory(value) ==
    value \in {"action", "battle", "system", "error", "ai", "combat",
               "movement", "info"}

\* the category handed to addLog by the log_entry case
LogCategory(p) ==
    IF "category" \in DOMAIN p /\ p.category # "" /\ IsKnownLogCategory(p.category)
    THEN p.category
    ELSE "info"

\* s.slice(0, n)
Take(s, n) == SubSeq(s, 1, IF Len(s) < n THEN Len(s) ELSE n)

\* s.slice(-n)
TakeLast(s, n) == SubSeq(s, IF Len(s) < n THEN 1 ELSE Len(s) - n + 1, Len(s))

\* a mutation of PushLog: the wrong end is cut ([newLog, ...prev].slice(-100))
PushLog_CutsHead(prev, newLog) == TakeLast(<<newLog>> \o prev, LogCapacity)

\* [newLog, ...prev].slice(0, 100)
PushLog(prev, newLog) == Take(<<newLog>> \o prev, LogCapacity)

\* the LogEntry built by addLog; id is Date.now() and timestamp is the same
\* instant in ISO form, both read from the clock
NewLog(message, type) == [id |-> now, message |-> message, type |-> type]

\* a mutation of AddLog: every category is stored
AddLog_NoAllowList(message, type) == PushLog(logs, NewLog(message, type))

\* addLog(message, type): the next value of logs
AddLog(message, type) ==
    IF type \notin GAMEPLAY_LOG_TYPES
    THEN logs
    ELSE PushLog(logs, NewLog(message, type))

----------------------------------------------------------------------------
(* Fire Emblem store: handleGameUpdate, one action per case of the switch *)

\* case "state_snapshot"
StateSnapshot(m) ==
    /\ m.type = "state_snapshot"
    /\ IF ~HasPayload(m)
       THEN UNCHANGED storeVars
       ELSE LET p == m.payload IN
            /\ gameState' = SnapshotReplace(gameState, p)
            /\ currentScreenshot' =
                   IF TruthyStr(p, "screenshotUrl") THEN p.screenshotUrl
                   ELSE currentScreenshot
            /\ chronicle' =
                   IF "chronicle_entries" \in DOMAIN p THEN p.chronicle_entries
                   ELSE chronicle
            /\ UNCHANGED <<currentSessionId, logs, aiThoughts>>
    /\ UNCHANGED <<now, viewVars, visionVars, pkVars, panelVars, strictVars>>

\* case "state_update"
StateUpdate(m) ==
    /\ m.type = "state_update"
    /\ IF ~HasPayload(m)
       THEN UNCHANGED storeVars
       ELSE LET p == m.payload IN
            /\ gameState' = ShallowMerge(gameState, p)
            /\ currentScreenshot' =
                   IF TruthyStr(p, "screenshotUrl") THEN p.screenshotUrl
                   ELSE currentScreenshot
            /\ currentSessionId' =
                   IF TruthyStr(p, "session_id") THEN p.session_id
                   ELSE currentSessionId
            /\ chronicle' =
                   IF "chronicle_entries" \in DOMAIN p
                   THEN p.chronicle_entries
                   ELSE IF "chronicle_update" \in DOMAIN p
                   THEN ChronicleUpsert(chronicle, p.chronicle_update)
                   ELSE chronicle
            /\ UNCHANGED <<logs, aiThoughts>>
    /\ UNCHANGED <<now, viewVars, visionVars, pkVars, panelVars, strictVars>>

\* case "log_entry"
LogEntry(m) ==
    /\ m.type = "log_entry"
    /\ IF ~HasPayload(m) \/ ~TruthyStr(m.payload, "text")
       THEN UNCHANGED storeVars
       ELSE /\ logs' = AddLog(m.payload.text, LogCategory(m.payload))
            /\ UNCHANGED <<gameState, chronicle, currentScreenshot,
                           currentSessionId, aiThoughts>>
    /\ UNCHANGED <<now, viewVars, visionVars, pkVars, panelVars, strictVars>>

\* the wall clock advances between two messages
Tick ==
    /\ now' = now + 1
    /\ UNCHANGED <<storeVars, viewVars, visionVars, pkVars, panelVars, strictVars>>

\* the string `[${new Date().toLocaleTimeString()}] ${thought}`: the clock
\* reading (to the second) followed by the thought
StampedThought(thought) == [time |-> now, thought |-> thought]

ThoughtBufferCapacity == 50

\* addAiThought: the next value of aiThoughts
AddAiThought(thought) ==
    TakeLast(Append(aiThoughts, StampedThought(thought)), ThoughtBufferCapacity)

\* case "ai_thought"; a changed aiThoughts array re-renders StreamOverlay
AiThought(m) ==
    /\ m.type = "ai_thought"
    /\ IF ~HasPayload(m) \/ ~TruthyText(m.payload, "thought")
       THEN UNCHANGED <<storeVars, effectPending>>
       ELSE /\ aiThoughts' = AddAiThought(m.payload.thought)
            /\ effectPending' = TRUE
            /\ UNCHANGED <<gameState, chronicle, currentScreenshot,
                           currentSessionId, logs>>
    /\ UNCHANGED <<thoughts, lastThoughtRef, lastProcessedIndexRef>>
    /\ UNCHANGED <<now, visionVars, pkVars, panelVars, strictVars>>

----------------------------------------------------------------------------
(* Text parser: extractButtons, parseSections (the action section),        *)
(* parseActionButtons                                                       *)

\* the alternatives of the button pattern, in its order
BUTTON_PATTERN ==
    <<<<"U", "P">>, <<"D", "O", "W", "N">>,
      <<"L", "E", "F", "T">>, <<"R", "I", "G", "H", "T">>,
      <<"A">>, <<"B">>, <<"S", "T", "A", "R", "T">>,
      <<"S", "E", "L", "E", "C", "T">>, <<"L">>, <<"R">>>>

\* \w
IsWordChar(c) == IsLetter(c) \/ IsDigit(c) \/ c = "_"

\* \b before position i of s (i from 1 to Len(s) + 1)
WordBoundary(s, i) ==
    (i - 1 >= 1 /\ IsWordChar(s[i - 1])) # (i <= Len(s) /\ IsWordChar(s[i]))

\* the alternatives of \b(UP|...|R)\b that match at position i of s, the
\* letters compared without regard to case (flag i)
ButtonsAt(s, i) ==
    {n \in DOMAIN BUTTON_PATTERN :
        LET b == BUTTON_PATTERN[n] IN
        /\ WordBoundary(s, i)
        /\ i + Len(b) - 1 <= Len(s)
        /\ ToUpperCase(SubSeq(s, i, i + Len(b) - 1)) = b
        /\ WordBoundary(s, i + Len(b))}

\* a mutation of ButtonMatches: a match is tried at every position, also
\* inside the text of the previous match, and boundaries are not needed
RECURSIVE ButtonMatches_Anywhere(_, _)
ButtonMatches_Anywhere(s, i) ==
    IF i > Len(s) THEN <<>>
    ELSE LET at == {n \in DOMAIN BUTTON_PATTERN :
                       /\ i + Len(BUTTON_PATTERN[n]) - 1 <= Len(s)
                       /\ ToUpperCase(SubSeq(s, i, i + Len(BUTTON_PATTERN[n]) - 1))
                              = BUTTON_PATTERN[n]}
         IN  IF at = {} THEN ButtonMatches_Anywhere(s, i + 1)
             ELSE LET n == CHOOSE k \in at : \A j \in at : k <= j IN
                  <<SubSeq(s, i, i + Len(BUTTON_PATTERN[n]) - 1)>>
                      \o ButtonMatches_Anywhere(s, i + 1)

\* text.match(pattern) with flag g: the matches from position i on, left to
\* right, the first alternative that matches taken at each position
RECURSIVE ButtonMatches(_, _)
ButtonMatches(s, i) ==
    IF i > Len(s) THEN <<>>
    ELSE IF ButtonsAt(s, i) = {} THEN ButtonMatches(s, i + 1)
    ELSE LET n == CHOOSE k \in ButtonsAt(s, i) : \A j \in ButtonsAt(s, i) : k <= j
             len == Len(BUTTON_PATTERN[n])
         IN  <<SubSeq(s, i, i + len - 1)>> \o ButtonMatches(s, i + len)

\* [...new Set(values)]: each value once, at its first occurrence
RECURSIVE Unique(_)
Unique(values) ==
    IF values = <<>> THEN <<>>
    ELSE LET before == Unique(SubSeq(values, 1, Len(values) - 1))
             v == values[Len(values)]
         IN  IF \E i \in DOMAIN before : before[i] = v THEN before
             ELSE Append(before, v)

extractButtons(text) ==
    LET matches == ButtonMatches(text, 1) IN
    Unique([i \in DOMAIN matches |-> ToUpperCase(matches[i])])

\* [A-Za-z;]
IsActionChar(c) == IsLetter(c) \/ c = ";"

\* the positions at which ACTION:\s*([A-Za-z;]+) matches, without regard to
\* case
ActionAt(text) ==
    {i \in 1..Len(text) :
        /\ i + 6 <= Len(text)
        /\ ToUpperCase(SubSeq(text, i, i + 6)) = <<"A", "C", "T", "I", "O", "N", ":">>
        /\ SkipSpace(text, i + 7) <= Len(text)
        /\ IsActionChar(text[SkipSpace(text, i + 7)])}

\* parseSections(text).action: the group captured by the leftmost match,
\* trimmed; the empty sequence when the pattern does not match (undefined)
SectionAction(text) ==
    IF ActionAt(text) = {} THEN <<>>
    ELSE LET i == CHOOSE j \in ActionAt(text) : \A k \in ActionAt(text) : j <= k
             from == SkipSpace(text, i + 7)
             stop == {j \in from..Len(text) : ~IsActionChar(text[j])}
             to == IF stop = {} THEN Len(text)
                   ELSE (CHOOSE j \in stop : \A k \in stop : j <= k) - 1
         IN  Trim(SubSeq(text, from, to))

\* a mutation of parseActionButtons: a repeated button is kept once
parseActionButtons_Deduplicated(actionStr) ==
    LET pieces == Split(actionStr, ";") IN
    Unique(SelectSeq([i \in DOMAIN pieces |-> ToUpperCase(Trim(pieces[i]))], NonEmpty))

parseActionButtons(actionStr) ==
    LET pieces == Split(actionStr, ";") IN
    SelectSeq([i \in DOMAIN pieces |-> ToUpperCase(Trim(pieces[i]))], NonEmpty)

\* the characters of a stamped thought: its clock reading in brackets, a
\* space, and the thought
RawChars(rawThought) ==
    <<"[">> \o Decimal(rawThought.time) \o <<"]", " ">> \o rawThought.thought

\* rawThought.replace(/^\[.*?\]\s*/, "")
CleanedText(raw) ==
    LET close == {i \in 2..Len(raw) :
                     /\ raw[i] = "]"
                     /\ \A j \in 2..(i - 1) : raw[j] # "\n"}
    IN  IF raw = <<>> \/ raw[1] # "[" \/ close = {} THEN raw
        ELSE SubSeq(raw,
                    SkipSpace(raw, (CHOOSE i \in close : \A j \in close : i <= j) + 1),
                    Len(raw))

----------------------------------------------------------------------------
(* StreamOverlay and useThoughts: from raw thoughts to ThoughtEntry *)

MAX_THOUGHTS == 20

\* the empty string lastThoughtRef starts with; no stamped thought equals it
EmptyString == <<>>

\* transformThought: the leading "[...]" stamp is stripped from the text; the
\* buttons are extracted from the stamped thought, the action section and its
\* buttons from the text; the tools and the other two sections are left out
TransformThought(rawThought, screenshot) ==
    LET cleanedText == CleanedText(RawChars(rawThought))
        action == SectionAction(cleanedText)
    IN  [text |-> cleanedText,
         screenshot |-> screenshot,
         buttons |-> extractButtons(RawChars(rawThought)),
         action |-> action,
         actionButtons |-> IF action # <<>> THEN parseActionButtons(action)
                           ELSE <<>>]

\* useThoughts.addThought applied to the pair st = [last, list]
AddThought(st, rawThought, screenshot) ==
    IF rawThought = st.last
    THEN st
    ELSE [last |-> rawThought,
          list |-> TakeLast(Append(st.list, TransformThought(rawThought, screenshot)),
                            MAX_THOUGHTS)]

\* the for loop of the effect, from 0-based index i to the end of aiThoughts
RECURSIVE ProcessFrom(_, _)
ProcessFrom(i, st) ==
    IF i < Len(aiThoughts)
    THEN ProcessFrom(i + 1, AddThought(st, aiThoughts[i + 1], currentScreenshot))
    ELSE st

\* the effect of StreamOverlay on [aiThoughts, currentScreenshot, addThought]
ThoughtEffect ==
    /\ effectPending
    /\ LET st == ProcessFrom(lastProcessedIndexRef + 1,
                             [last |-> lastThoughtRef, list |-> thoughts])
       IN  /\ thoughts' = st.list
           /\ lastThoughtRef' = st.last
    /\ lastProcessedIndexRef' =
           IF Len(aiThoughts) > 0 THEN Len(aiThoughts) - 1
           ELSE lastProcessedIndexRef
    /\ effectPending' = FALSE
    /\ UNCHANGED <<storeVars, visionVars, pkVars, panelVars, strictVars, now>>

----------------------------------------------------------------------------
(* VisionScreenshot: best-effort loading of /latest.png with retries.       *)
(* The variant of the component that also accepts base64Data runs the same  *)
(* code whenever no base64Data is given (it only lacks retryCount).         *)

MAX_RETRIES == 3

\* JavaScript null
Null == "null"

\* the timestamp prop before the component has been given one
NoTimestamp == 0

LoadError == "Failed to load screenshot"

\* getScreenshotUrl of the render whose timestamp prop is ts
ScreenshotUrl(ts) == [path |-> "/latest.png", t |-> ts]

\* a preload or a timer created by loadScreenshot(retryAttempt) of the render
\* whose timestamp prop was ts; its callbacks close over that render
Request(ts, retryAttempt) == [ts |-> ts, retryAttempt |-> retryAttempt]

\* loadScreenshot(retryAttempt) of the render with timestamp ts, up to img.src
LoadScreenshot(ts, retryAttempt, inFlight) ==
    /\ screenshotSrc' = ScreenshotUrl(ts)
    /\ isLoading' = TRUE
    /\ error' = Null
    /\ preloads' = inFlight \cup {Request(ts, retryAttempt)}

\* the timestamp prop changes (or the component mounts): the effect on
\* [timestamp] calls loadScreenshot() of the new render
VisionRequest(ts) ==
    /\ ts # timestamp
    /\ timestamp' = ts
    /\ LoadScreenshot(ts, 0, preloads)
    /\ UNCHANGED <<retryCount, timers>>
    /\ UNCHANGED <<storeVars, viewVars, pkVars, panelVars, strictVars, now>>

\* a mutation of PreloadLoaded: onload forgets setIsLoading(false)
PreloadLoaded_KeepsLoading(r) ==
    /\ r \in preloads
    /\ preloads' = preloads \ {r}
    /\ error' = Null
    /\ retryCount' = 0
    /\ UNCHANGED <<timestamp, screenshotSrc, timers, isLoading>>
    /\ UNCHANGED <<storeVars, viewVars, pkVars, panelVars, strictVars, now>>

\* img.onload of preload r
PreloadLoaded(r) ==
    /\ r \in preloads
    /\ preloads' = preloads \ {r}
    /\ isLoading' = FALSE
    /\ error' = Null
    /\ retryCount' = 0
    /\ UNCHANGED <<timestamp, screenshotSrc, timers>>
    /\ UNCHANGED <<storeVars, viewVars, pkVars, panelVars, strictVars, now>>

\* a mutation of PreloadFailed: the bound is tested with <=
PreloadFailed_OneMoreRetry(r) ==
    /\ r \in preloads
    /\ preloads' = preloads \ {r}
    /\ IF r.retryAttempt <= MAX_RETRIES
       THEN /\ timers' = timers \cup {r}
            /\ UNCHANGED <<isLoading, error, retryCount>>
       ELSE /\ isLoading' = FALSE
            /\ error' = LoadError
            /\ retryCount' = 0
            /\ UNCHANGED timers
    /\ UNCHANGED <<timestamp, screenshotSrc>>
    /\ UNCHANGED <<storeVars, viewVars, pkVars, panelVars, strictVars, now>>

\* img.onerror of preload r
PreloadFailed(r) ==
    /\ r \in preloads
    /\ preloads' = preloads \ {r}
    /\ IF r.retryAttempt < MAX_RETRIES
       THEN /\ timers' = timers \cup {r}
            /\ UNCHANGED <<isLoading, error, retryCount>>
       ELSE /\ isLoading' = FALSE
            /\ error' = LoadError
            /\ retryCount' = 0
            /\ UNCHANGED timers
    /\ UNCHANGED <<timestamp, screenshotSrc>>
    /\ UNCHANGED <<storeVars, viewVars, pkVars, panelVars, strictVars, now>>

\* the setTimeout callback armed by the onerror of r: loadScreenshot of the
\* render that created r, with the next attempt number
RetryTimerFires(r) ==
    /\ r \in timers
    /\ timers' = timers \ {r}
    /\ LoadScreenshot(r.ts, r.retryAttempt + 1, preloads)
    /\ UNCHANGED <<timestamp, retryCount>>
    /\ UNCHANGED <<storeVars, viewVars, pkVars, panelVars, strictVars, now>>

----------------------------------------------------------------------------
(* Pokemon-mode store: handleGameUpdate *)

PK_INITIAL_GAME_STATE ==
    [badges |-> <<>>,
     goals |-> [primary |-> "Loading...", secondary |-> "Loading...",
                tertiary |-> "Loading..."],
     otherGoals |-> "Loading...",
     minimapLocation |-> "Unknown Area",
     currentTeam |-> <<>>,
     actions |-> 0,
     gameStatus |-> "Connecting...",
     modelName |-> "N/A",
     tokensUsed |-> 0,
     minimapVisible |-> FALSE]

PkLogCapacity == 3000

\* o[k] || fallback for a string field, and for a numeric field
StrOr(o, k, fallback) == IF k \in DOMAIN o /\ o[k] # "" THEN o[k] ELSE fallback
NumOr(o, k, fallback) == IF k \in DOMAIN o /\ o[k] # 0 THEN o[k] ELSE fallback

\* an optional boolean flag copied from o; an absent flag is falsy
Flag(o, k) == k \in DOMAIN o /\ o[k]

HasId(o) == "id" \in DOMAIN o

\* the Pokemon built from an element of data.currentTeam
PkTeamMember(p) ==
    [id |-> StrOr(p, "name", "unknown"),
     name |-> StrOr(p, "name", "Unknown"),
     level |-> NumOr(p, "level", 0),
     type |-> StrOr(p, "type", "Normal"),
     hp |-> NumOr(p, "hp", 0),
     maxHp |-> NumOr(p, "maxHp", 0),
     isFainted |-> ("hp" \in DOMAIN p /\ p.hp <= 0),
     location |-> "party"]

\* the value stored for key of data by the updater of setGameState (goals and
\* currentTeam, when carried, are an object and an array)
PkStateValue(prev, data, key) ==
    IF key = "goals"
    THEN [primary   |-> StrOr(data.goals, "primary", prev.goals.primary),
          secondary |-> StrOr(data.goals, "secondary", prev.goals.secondary),
          tertiary  |-> StrOr(data.goals, "tertiary", prev.goals.tertiary)]
    ELSE IF key = "currentTeam"
    THEN [i \in 1..Len(data.currentTeam) |-> PkTeamMember(data.currentTeam[i])]
    ELSE data[key]

PkSkippedKeys == {"log_entry", "vision_log", "response_log"}

\* the direct state update: the next value of gameState
PkNextGameState(prev, data) ==
    IF {"actions", "badges", "currentTeam"} \cap DOMAIN data = {}
    THEN prev
    ELSE LET keys == DOMAIN data \ PkSkippedKeys IN
         [k \in DOMAIN prev \cup keys |->
             IF k \in keys THEN PkStateValue(prev, data, k) ELSE prev[k]]

\* an element of data.log_history as stored; position stands for the value of
\* Math.random() in the generated id
PkHistoryLog(log, position) ==
    [id |-> IF HasId(log) THEN log.id ELSE <<"hist", now, position>>,
     timestamp |-> NumOr(log, "timestamp", now),
     text |-> log.text,
     is_action |-> Flag(log, "is_action"),
     is_vision |-> Flag(log, "is_vision"),
     is_response |-> Flag(log, "is_response"),
     type |-> IF Flag(log, "is_vision") THEN "vision"
              ELSE IF Flag(log, "is_response") THEN "response" ELSE "action"]

\* an element of data.logs as stored
PkBulkLog(log, position) ==
    [id |-> IF HasId(log) THEN log.id ELSE <<"log", now, position>>,
     timestamp |-> now,
     text |-> IF "text" \in DOMAIN log /\ log.text # "" THEN log.text ELSE log.message,
     is_action |-> Flag(log, "is_action"),
     is_vision |-> Flag(log, "is_vision"),
     is_response |-> Flag(log, "is_response"),
     type |-> "info"]

PkLogEntryLog(e) ==
    [id |-> IF HasId(e) THEN e.id ELSE <<"log", now>>,
     timestamp |-> now,
     text |-> e.text,
     is_action |-> Flag(e, "is_action"),
     is_vision |-> FALSE,
     is_response |-> FALSE,
     type |-> "action"]

PkVisionLog(e) ==
    [id |-> IF HasId(e) THEN e.id ELSE <<"vision", now>>,
     timestamp |-> NumOr(e, "timestamp", now),
     text |-> e.text,
     is_action |-> FALSE,
     is_vision |-> TRUE,
     is_response |-> FALSE,
     type |-> "vision"]

PkResponseLog(e) ==
    [id |-> IF HasId(e) THEN e.id ELSE <<"response", now>>,
     timestamp |-> now,
     text |-> e.text,
     is_action |-> FALSE,
     is_vision |-> FALSE,
     is_response |-> TRUE,
     type |-> "response"]

\* [...newLogs, ...prev].slice(0, 3000)
PkPush(prev, newLogs) == Take(newLogs \o prev, PkLogCapacity)

\* data[k] && data[k].text
PkHasText(data, k) == k \in DOMAIN data /\ TruthyStr(data[k], "text")

\* the setLogs calls of one message, applied in program order
PkAfterHistory(prev, data) ==
    IF "log_history" \in DOMAIN data
    THEN [i \in 1..Len(data.log_history) |-> PkHistoryLog(data.log_history[i], i)]
    ELSE prev

PkAfterLogEntry(prev, data) ==
    IF PkHasText(data, "log_entry")
    THEN PkPush(prev, <<PkLogEntryLog(data.log_entry)>>) ELSE prev

PkAfterVisionLog(prev, data) ==
    IF PkHasText(data, "vision_log")
    THEN PkPush(prev, <<PkVisionLog(data.vision_log)>>) ELSE prev

PkAfterResponseLog(prev, data) ==
    IF PkHasText(data, "response_log")
    THEN PkPush(prev, <<PkResponseLog(data.response_log)>>) ELSE prev

PkAfterBulkLogs(prev, data) ==
    IF "logs" \in DOMAIN data
    THEN PkPush(prev, [i \in 1..Len(data.logs) |-> PkBulkLog(data.logs[i], i)])
    ELSE prev

\* handleGameUpdate(data) of the Pokemon-mode App
PkHandleGameUpdate(data) ==
    /\ pkGameState' = PkNextGameState(pkGameState, data)
    /\ pkLogs' = PkAfterBulkLogs(
                    PkAfterResponseLog(
                       PkAfterVisionLog(
                          PkAfterLogEntry(
                             PkAfterHistory(pkLogs, data), data), data), data), data)
    /\ pkMemoryWrite' =
           IF PkHasText(data, "memory_write") THEN data.memory_write.text
           ELSE pkMemoryWrite
    /\ UNCHANGED <<storeVars, viewVars, visionVars, now, panelVars, strictVars>>

----------------------------------------------------------------------------
(* Fire Emblem store: the remaining cases of handleGameUpdate *)

INITIAL_VISION_STATE == [description |-> Null, processing |-> FALSE]

INITIAL_AI_PROCESSING == [status |-> "idle"]

\* the object built by case "vision_update" from an optional payload
VisionFromPayload(m) ==
    [description |->
         IF HasPayload(m) /\ "description" \in DOMAIN m.payload
         THEN m.payload.description ELSE Null,
     processing |-> HasPayload(m) /\ Flag(m.payload, "processing")]

\* case "vision_update": setVisionState is called whether or not a payload came
VisionUpdate(m) ==
    /\ m.type = "vision_update"
    /\ visionState' = VisionFromPayload(m)
    /\ UNCHANGED <<memoryWrite, aiProcessing, showAllSessions>>
    /\ UNCHANGED <<storeVars, viewVars, visionVars, pkVars, strictVars, now>>

\* case "vision_status": the description is kept, processing is overwritten
VisionStatus(m) ==
    /\ m.type = "vision_status"
    /\ visionState' =
           [description |-> visionState.description,
            processing |-> HasPayload(m) /\ Flag(m.payload, "processing")]
    /\ UNCHANGED <<memoryWrite, aiProcessing, showAllSessions>>
    /\ UNCHANGED <<storeVars, viewVars, visionVars, pkVars, strictVars, now>>

\* a mutation of MemoryWriteNext: a payload without text empties the note
MemoryWriteNext_ClearsOnEmpty(prev, m) ==
    IF HasPayload(m) /\ TruthyStr(m.payload, "text") THEN m.payload.text ELSE Null

\* if (p?.text) setMemoryWrite(p.text): the next value of memoryWrite
MemoryWriteNext(prev, m) ==
    IF HasPayload(m) /\ TruthyStr(m.payload, "text") THEN m.payload.text ELSE prev

\* case "memory_write"
MemoryWrite(m) ==
    /\ m.type = "memory_write"
    /\ memoryWrite' = MemoryWriteNext(memoryWrite, m)
    /\ UNCHANGED <<visionState, aiProcessing, showAllSessions>>
    /\ UNCHANGED <<storeVars, viewVars, visionVars, pkVars, strictVars, now>>

\* the object stored by case "ai_processing"; status is cast, not checked
AiProcessingFromPayload(p) ==
    IF "model" \in DOMAIN p
    THEN [status |-> p.status, model |-> p.model]
    ELSE [status |-> p.status]

\* case "ai_processing"
AiProcessing(m) ==
    /\ m.type = "ai_processing"
    /\ aiProcessing' =
           IF HasPayload(m) /\ TruthyStr(m.payload, "status")
           THEN AiProcessingFromPayload(m.payload)
           ELSE aiProcessing
    /\ UNCHANGED <<visionState, memoryWrite, showAllSessions>>
    /\ UNCHANGED <<storeVars, viewVars, visionVars, pkVars, strictVars, now>>

\* `New session started: ${session_id}`
SessionLogMessage(sessionId) == <<"New session started: ", sessionId>>

\* case "session_start"
SessionStart(m) ==
    /\ m.type = "session_start"
    /\ IF HasPayload(m) /\ TruthyStr(m.payload, "session_id")
       THEN /\ currentSessionId' = m.payload.session_id
            /\ logs' = AddLog(SessionLogMessage(m.payload.session_id), "system")
       ELSE UNCHANGED <<currentSessionId, logs>>
    /\ UNCHANGED <<gameState, chronicle, currentScreenshot, aiThoughts>>
    /\ UNCHANGED <<panelVars, viewVars, visionVars, pkVars, strictVars, now>>

\* the cases of the switch
HandledTypes ==
    {"state_snapshot", "state_update", "log_entry", "vision_update",
     "vision_status", "ai_thought", "memory_write", "ai_processing",
     "session_start"}

\* the type the switch is evaluated on; a message without one has undefined
MessageType(m) == IF "type" \in DOMAIN m THEN m.type ELSE "undefined"

\* a mutation of UnhandledMessage: the default case clears the ai status
UnhandledMessage_ResetsStatus(m) ==
    /\ MessageType(m) \notin HandledTypes
    /\ aiProcessing' = INITIAL_AI_PROCESSING
    /\ UNCHANGED <<visionState, memoryWrite, showAllSessions>>
    /\ UNCHANGED <<storeVars, viewVars, visionVars, pkVars, strictVars, now>>

\* default: a warning in development builds, nothing else
UnhandledMessage(m) ==
    /\ MessageType(m) \notin HandledTypes
    /\ UNCHANGED <<storeVars, panelVars, viewVars, visionVars, pkVars,
                   strictVars, now>>

\* onMemoryWriteClear
ClearMemoryWrite ==
    /\ memoryWrite' = Null
    /\ UNCHANGED <<visionState, aiProcessing, showAllSessions>>
    /\ UNCHANGED <<storeVars, viewVars, visionVars, pkVars, strictVars, now>>

\* onToggleAllSessions
ToggleAllSessions ==
    /\ showAllSessions' = ~showAllSessions
    /\ UNCHANGED <<visionState, memoryWrite, aiProcessing>>
    /\ UNCHANGED <<storeVars, viewVars, visionVars, pkVars, strictVars, now>>

\* entry.session_id === currentSessionId
InSession(entry, sessionId) ==
    "session_id" \in DOMAIN entry /\ entry.session_id = sessionId

\* a mutation of filteredChronicle: the test for an active session is dropped
filteredChronicle_AlwaysFilters ==
    IF showAllSessions
    THEN chronicle
    ELSE SelectSeq(chronicle, LAMBDA entry : InSession(entry, currentSessionId))

\* the memoised projection handed to the Chronicle panel
filteredChronicle ==
    IF showAllSessions \/ currentSessionId = ""
    THEN chronicle
    ELSE SelectSeq(chronicle, LAMBDA entry : InSession(entry, currentSessionId))

----------------------------------------------------------------------------
(* Pokemon-mode store: the consumer's callback *)

\* onMemoryWriteClear
PkClearMemoryWrite ==
    /\ pkMemoryWrite' = Null
    /\ UNCHANGED <<pkGameState, pkLogs>>
    /\ UNCHANGED <<storeVars, panelVars, viewVars, visionVars, strictVars, now>>

----------------------------------------------------------------------------
(* VisionScreenshot (strict sync).  A base64 string is the sequence of its  *)
(* symbols; the empty sequence is the falsy value of `if (base64Data)`.     *)

NoBase64 == <<>>

NoSrc == <<>>

NoDataError == "No screenshot data available"

RenderError == "Failed to render image"

\* `data:image/png;base64,${base64Data}`
DataUrl(data) == <<"data:image/png;base64,">> \o data

\* the parent renders the component with another base64Data prop; the effect
\* ([base64Data]) is scheduled.  The effect of the previous render has run:
\* pending passive effects are flushed before the next render begins.
StrictRender(data) ==
    /\ ~strictEffectPending
    /\ data # base64Data
    /\ base64Data' = data
    /\ strictEffectPending' = TRUE
    /\ UNCHANGED <<strictScreenshotSrc, strictIsLoading, strictError>>
    /\ UNCHANGED <<storeVars, panelVars, viewVars, visionVars, pkVars, now>>

\* a mutation of StrictSync: without data the previous image is kept
StrictSync_KeepsPrevious ==
    /\ strictEffectPending
    /\ strictEffectPending' = FALSE
    /\ IF base64Data # NoBase64
       THEN /\ strictScreenshotSrc' = DataUrl(base64Data)
            /\ strictError' = Null
            /\ strictIsLoading' = FALSE
       ELSE /\ strictIsLoading' = FALSE
            /\ UNCHANGED <<strictScreenshotSrc, strictError>>
    /\ UNCHANGED base64Data
    /\ UNCHANGED <<storeVars, panelVars, viewVars, visionVars, pkVars, now>>

\* the effect of the component
StrictSync ==
    /\ strictEffectPending
    /\ strictEffectPending' = FALSE
    /\ IF base64Data # NoBase64
       THEN /\ strictScreenshotSrc' = DataUrl(base64Data)
            /\ strictError' = Null
            /\ strictIsLoading' = FALSE
       ELSE /\ strictScreenshotSrc' = NoSrc
            /\ strictIsLoading' = FALSE
            /\ strictError' = NoDataError
    /\ UNCHANGED base64Data
    /\ UNCHANGED <<storeVars, panelVars, viewVars, visionVars, pkVars, now>>

\* onError of the rendered <img>, which exists while there is a source and
\* no error
StrictImageError ==
    /\ strictError = Null
    /\ strictScreenshotSrc # NoSrc
    /\ strictIsLoading' = FALSE
    /\ strictError' = RenderError
    /\ UNCHANGED <<base64Data, strictScreenshotSrc, strictEffectPending>>
    /\ UNCHANGED <<storeVars, panelVars, viewVars, visionVars, pkVars, now>>

----------------------------------------------------------------------------
(* AnalysisPanel of the Pokemon-mode App: the vision column *)

\* the base64Data prop of <VisionScreenshot timestamp={...} />: the element
\* passes the timestamp of latestVisionEntry and nothing else, so the prop is
\* undefined whatever the entry holds
PanelBase64Data(entries) == NoBase64

\* handleGameUpdate(data) followed by the render it causes: AnalysisPanel
\* hands VisionScreenshot its props, and a changed base64Data schedules the
\* effect
PanelDeliver(data) ==
    /\ pkGameState' = PkNextGameState(pkGameState, data)
    /\ pkLogs' = PkAfterBulkLogs(
                    PkAfterResponseLog(
                       PkAfterVisionLog(
                          PkAfterLogEntry(
                             PkAfterHistory(pkLogs, data), data), data), data), data)
    /\ pkMemoryWrite' =
           IF PkHasText(data, "memory_write") THEN data.memory_write.text
           ELSE pkMemoryWrite
    /\ base64Data' = PanelBase64Data(pkLogs')
    /\ strictEffectPending' = (strictEffectPending \/ base64Data' # base64Data)
    /\ UNCHANGED <<strictScreenshotSrc, strictIsLoading, strictError>>
    /\ UNCHANGED <<storeVars, panelVars, viewVars, visionVars, now>>

----------------------------------------------------------------------------
(* Chapter tree: chapterData, parseChapterNumber, getChapterIndex,          *)
(* buildChapterTreeState, ChapterTree.getNodeStatus.  A string is the       *)
(* sequence of its characters; the empty sequence also stands for an        *)
(* undefined chapter string (both are falsy).                               *)

\* parseInt(num, 10) of a string of digits
RECURSIVE ParseInt(_)
ParseInt(num) ==
    IF num = <<>> THEN 0
    ELSE 10 * ParseInt(SubSeq(num, 1, Len(num) - 1))
         + (CHOOSE d \in 0..9 : DigitChars[d + 1] = num[Len(num)])

\* toLowerCase(), on the letters that occur in chapter strings
ToLowerCase(s) ==
    [i \in 1..Len(s) |->
        CASE s[i] = "P" -> "p" [] s[i] = "F" -> "f" [] s[i] = "X" -> "x"
          [] s[i] = "E" -> "e" [] OTHER -> s[i]]

\* replace(/^0+/, "")
StripLeadingZeros(s) ==
    LET keep == {i \in 1..Len(s) : s[i] # "0"} IN
    IF keep = {} THEN <<>>
    ELSE SubSeq(s, CHOOSE i \in keep : \A j \in keep : i <= j, Len(s))

ChapterNode(id, number) == [id |-> id, number |-> number]

SHARED_CHAPTERS ==
    <<ChapterNode("prologue", <<"P">>), ChapterNode("ch1", <<"1">>),
      ChapterNode("ch2", <<"2">>), ChapterNode("ch3", <<"3">>),
      ChapterNode("ch4", <<"4">>), ChapterNode("ch5", <<"5">>),
      ChapterNode("ch5x", <<"5", "x">>), ChapterNode("ch6", <<"6">>),
      ChapterNode("ch7", <<"7">>), ChapterNode("ch8", <<"8">>)>>

EIRIKA_CHAPTERS ==
    <<ChapterNode("ch9e", <<"9">>), ChapterNode("ch10e", <<"1", "0">>),
      ChapterNode("ch11e", <<"1", "1">>), ChapterNode("ch12e", <<"1", "2">>),
      ChapterNode("ch13e", <<"1", "3">>), ChapterNode("ch14e", <<"1", "4">>),
      ChapterNode("ch15e", <<"1", "5">>)>>

EPHRAIM_CHAPTERS ==
    <<ChapterNode("ch9p", <<"9">>), ChapterNode("ch10p", <<"1", "0">>),
      ChapterNode("ch11p", <<"1", "1">>), ChapterNode("ch12p", <<"1", "2">>),
      ChapterNode("ch13p", <<"1", "3">>), ChapterNode("ch14p", <<"1", "4">>),
      ChapterNode("ch15p", <<"1", "5">>)>>

FINAL_CHAPTERS ==
    <<ChapterNode("ch16", <<"1", "6">>), ChapterNode("ch17", <<"1", "7">>),
      ChapterNode("ch18", <<"1", "8">>), ChapterNode("ch19", <<"1", "9">>),
      ChapterNode("ch20", <<"2", "0">>), ChapterNode("final", <<"F">>)>>

getAllChapters(route) ==
    IF route = "eirika" THEN SHARED_CHAPTERS \o EIRIKA_CHAPTERS \o FINAL_CHAPTERS
    ELSE IF route = "ephraim"
    THEN SHARED_CHAPTERS \o EPHRAIM_CHAPTERS \o FINAL_CHAPTERS
    ELSE SHARED_CHAPTERS

\* normalized.match(/^(\d+)(x?)([ep]?)$/): the three groups, or Null
ChapterMatch(normalized) ==
    LET digits == {i \in 0..Len(normalized) :
                      \A j \in 1..i : IsDigit(normalized[j])}
        n      == SetMax(digits)
        rest   == SubSeq(normalized, n + 1, Len(normalized))
        x      == IF rest # <<>> /\ rest[1] = "x" THEN <<"x">> ELSE <<>>
        tail   == SubSeq(rest, Len(x) + 1, Len(rest))
    IN  IF n >= 1 /\ tail \in {<<>>, <<"e">>, <<"p">>}
        THEN [num |-> SubSeq(normalized, 1, n), x |-> x, routeSuffix |-> tail]
        ELSE [num |-> <<>>, x |-> <<>>, routeSuffix |-> <<>>]

parseChapterNumber(chapterStr) ==
    LET normalized == Trim(ToLowerCase(chapterStr))
        match == ChapterMatch(normalized)
        chapterNum == ParseInt(match.num)
        route == IF match.routeSuffix = <<"p">> THEN "ephraim"
                 ELSE IF match.routeSuffix = <<"e">> THEN "eirika"
                 ELSE IF chapterNum >= 9 /\ chapterNum <= 15 THEN "eirika"
                 ELSE Null
    IN  IF chapterStr = <<>>
        THEN [number |-> <<"P">>, route |-> Null]
        ELSE IF normalized \in {<<"p", "r", "o", "l", "o", "g", "u", "e">>,
                                <<"p">>, <<"0">>}
        THEN [number |-> <<"P">>, route |-> Null]
        ELSE IF normalized \in {<<"f", "i", "n", "a", "l">>, <<"f">>, <<"2", "1">>}
        THEN [number |-> <<"F">>, route |-> Null]
        ELSE IF match.num # <<>>
        THEN [number |-> match.num \o match.x,
              route |-> IF chapterNum <= 8 THEN Null ELSE route]
        ELSE [number |-> chapterStr, route |-> Null]

\* chapters.findIndex(...), zero-based, -1 when no chapter matches
getChapterIndex(chapterNum, route) ==
    LET chapters == getAllChapters(route)
        normalized == StripLeadingZeros(ToLowerCase(chapterNum))
        hits == {i \in 1..Len(chapters) :
                    \/ ToLowerCase(chapters[i].number) = normalized
                    \/ ToLowerCase(chapters[i].number) = ToLowerCase(chapterNum)}
    IN  IF hits = {} THEN -1
        ELSE (CHOOSE i \in hits : \A j \in hits : i <= j) - 1

\* gameState.chapter?.number
ChapterString(game) ==
    IF "chapter" \in DOMAIN game /\ "number" \in DOMAIN game.chapter
    THEN game.chapter.number ELSE <<>>

buildChapterTreeState(game) ==
    LET parsed == parseChapterNumber(ChapterString(game))
        chapters == getAllChapters(parsed.route)
        currentIndex == getChapterIndex(parsed.number, parsed.route)
    IN  [chapters |-> chapters,
         currentChapter |-> IF currentIndex >= 0 THEN chapters[currentIndex + 1].id
                            ELSE "prologue",
         currentRoute |-> parsed.route,
         completedChapters |->
             {chapters[i].id : i \in 1..(IF currentIndex > 0 THEN currentIndex ELSE 0)}]

\* ChapterTree.getNodeStatus
getNodeStatus(state, chapterId) ==
    IF chapterId \in state.completedChapters THEN "completed"
    ELSE IF chapterId = state.currentChapter THEN "current"
    ELSE "future"

----------------------------------------------------------------------------
(* getHPStatus.  JavaScript numbers are binary floating point: a value is   *)
(* [m, s] for m / 2^s with a significand m of SignificandBits bits, and     *)
(* every operation rounds its exact result to nearest, ties to even.  A     *)
(* double has 53 bits; the model keeps 24, the most whose products fit the  *)
(* model checker's integers: its rounding errors are larger than a          *)
(* double's by a factor of 2^29.                                            *)

SignificandBits == 24

\* a / b rounded to the nearest integer, ties to even
RoundHalfEven(a, b) ==
    LET q == a \div b
        r == a % b
    IN  IF 2 * r > b \/ (2 * r = b /\ q % 2 = 1) THEN q + 1 ELSE q

\* the float nearest to n / (d * 2^s0), for integers n >= 0 and d > 0
Float(n, d, s0) ==
    IF n = 0 THEN [m |-> 0, s |-> 0]
    ELSE LET lo == 2 ^ (SignificandBits - 1)
             hi == 2 ^ SignificandBits
             \* n / d scaled into [lo, hi) by 2^up or by 1 / 2^down
             up == IF n >= lo * d THEN 0
                   ELSE CHOOSE k \in 1..(SignificandBits + 31) :
                            /\ lo * d <= n * (2 ^ k)
                            /\ n * (2 ^ (k - 1)) < lo * d
             down == IF n < hi * d THEN 0
                     ELSE CHOOSE k \in 1..7 :
                              /\ n \div (d * (2 ^ k)) < hi
                              /\ hi <= n \div (d * (2 ^ (k - 1)))
             m == RoundHalfEven(n * (2 ^ up), d * (2 ^ down))
         IN  IF m = hi THEN [m |-> lo, s |-> s0 + up - down - 1]
             ELSE [m |-> m, s |-> s0 + up - down]

\* hp / maxHp
FloatDiv(hp, maxHp) == Float(hp, maxHp, 0)

\* x * k for a float x and an integer k
FloatTimes(x, k) == Float(x.m * k, 1, x.s)

\* x <= k for a float x and an integer k
FloatAtMost(x, k) == x.m <= k * (2 ^ x.s)

\* a mutation of getHPStatus: the lower band excludes its upper boundary
getHPStatus_ExclusiveBands(hp, maxHp) ==
    LET percent == FloatTimes(FloatDiv(hp, maxHp), 100) IN
    IF ~FloatAtMost(percent, 25) \/ percent = Float(25, 1, 0)
    THEN IF ~FloatAtMost(percent, 50) \/ percent = Float(50, 1, 0)
         THEN "healthy" ELSE "wounded"
    ELSE "critical"

getHPStatus(hp, maxHp) ==
    LET percent == FloatTimes(FloatDiv(hp, maxHp), 100) IN
    IF FloatAtMost(percent, 25) THEN "critical"
    ELSE IF FloatAtMost(percent, 50) THEN "wounded"
    ELSE "healthy"

\* transformUnits: the status shown for each unit of the game mapping
hpStatuses ==
    [i \in DOMAIN gameState.units |->
        getHPStatus(gameState.units[i].hp, gameState.units[i].maxHp)]

----------------------------------------------------------------------------
(* formatVisionAnalysisAsList: the structured list shown for a vision       *)
(* analysis, as the sequence of its items.                                  *)

Unreadable == <<"u", "n", "r", "e", "a", "d", "a", "b", "l", "e">>
NoneValue == <<"n", "o", "n", "e">>

\* formatList inside formatVisionAnalysisAsList
formatList(str) ==
    IF str = <<>> \/ str = Unreadable THEN <<>>
    ELSE Join(SelectSeq(TrimAll(Split(str, ";")), NonEmpty), <<",", " ">>)

VisionItem(label, value) == [label |-> label, content |-> value]

\* addItem inside formatVisionAnalysisAsList
addItem(htmlItems, label, value) ==
    IF value = <<>> \/ value = Unreadable \/ value = NoneValue THEN htmlItems
    ELSE Append(htmlItems, VisionItem(label, value))

\* the "Map fields to UI" lines, in their order: key, label, and how the
\* value is passed to addItem
VISION_FIELDS ==
    <<[key |-> <<"s", "c", "r", "e", "e", "n", "_", "t", "y", "p", "e">>, label |-> <<"S", "C", "R", "E", "E", "N">>, via |-> "upper"],
      [key |-> <<"r", "e", "a", "d", "a", "b", "l", "e", "_", "t", "e", "x", "t">>, label |-> <<"T", "E", "X", "T">>, via |-> "list"],
      [key |-> <<"p", "l", "a", "y", "e", "r", "_", "p", "o", "s", "i", "t", "i", "o", "n">>, label |-> <<"P", "O", "S", "I", "T", "I", "O", "N">>, via |-> "plain"],
      [key |-> <<"n", "e", "a", "r", "b", "y", "_", "o", "b", "j", "e", "c", "t", "s">>, label |-> <<"N", "E", "A", "R", "B", "Y">>, via |-> "list"],
      [key |-> <<"n", "p", "c", "s">>, label |-> <<"N", "P", "C", "s">>, via |-> "list"],
      [key |-> <<"o", "b", "s", "t", "a", "c", "l", "e", "s">>, label |-> <<"O", "B", "S", "T", "A", "C", "L", "E", "S">>, via |-> "list"],
      [key |-> <<"u", "i", "_", "e", "l", "e", "m", "e", "n", "t", "s">>, label |-> <<"U", "I">>, via |-> "list"],
      [key |-> <<"b", "a", "t", "t", "l", "e", "_", "i", "n", "f", "o">>, label |-> <<"B", "A", "T", "T", "L", "E">>, via |-> "list"],
      [key |-> <<"m", "e", "n", "u", "_", "c", "u", "r", "s", "o", "r">>, label |-> <<"C", "U", "R", "S", "O", "R">>, via |-> "plain"],
      [key |-> <<"n", "a", "v", "i", "g", "a", "t", "i", "o", "n", "_", "n", "o", "t", "e", "s">>, label |-> <<"N", "A", "V">>, via |-> "list"]>>

\* the items of the first n fields of a parsed JSON object
RECURSIVE JsonItems(_, _)
JsonItems(data, n) ==
    IF n = 0 THEN <<>>
    ELSE LET f == VISION_FIELDS[n]
             before == JsonItems(data, n - 1)
         IN  IF f.key \in DOMAIN data /\ data[f.key] # <<>>
             THEN addItem(before, f.label,
                          CASE f.via = "upper" -> ToUpperCase(data[f.key])
                            [] f.via = "list" -> formatList(data[f.key])
                            [] OTHER -> data[f.key])
             ELSE before

\* replace(/;\s*/g, ", ")
RECURSIVE ReplaceSemicolons(_)
ReplaceSemicolons(content) ==
    IF content = <<>> THEN <<>>
    ELSE IF content[1] # ";" THEN <<content[1]>> \o ReplaceSemicolons(Tail(content))
    ELSE LET rest == Tail(content)
             kept == {i \in 1..Len(rest) : rest[i] # " "}
             from == IF kept = {} THEN Len(rest) + 1
                     ELSE CHOOSE i \in kept : \A j \in kept : i <= j
         IN  <<",", " ">> \o ReplaceSemicolons(SubSeq(rest, from, Len(rest)))

\* the label of a category header of the text grammar
SimpleLabel(category) ==
    LET simpleLabel == ToUpperCase(category) IN
    CASE simpleLabel = <<"R", "E", "A", "D", "A", "B", "L", "E", " ", "T", "E", "X", "T">> -> <<"T", "E", "X", "T">>
      [] simpleLabel = <<"C", "H", "A", "R", "A", "C", "T", "E", "R", " ", "P", "O", "S", "I", "T", "I", "O", "N">> -> <<"P", "O", "S", "I", "T", "I", "O", "N">>
      [] simpleLabel = <<"V", "I", "S", "I", "B", "L", "E", " ", "N", "P", "C", "S">> -> <<"N", "P", "C", "s">>
      [] simpleLabel = <<"U", "I", " ", "E", "L", "E", "M", "E", "N", "T", "S">> -> <<"U", "I">>
      [] OTHER -> simpleLabel

\* indexOf(":"), zero when there is none
ColonIndex(section) ==
    LET at == {i \in 1..Len(section) : section[i] = ":"} IN
    IF at = {} THEN 0 ELSE CHOOSE i \in at : \A j \in at : i <= j

\* sections.forEach of the text grammar, over the first n sections (no text
\* of the model carries a bullet, which replace(/\u2022/g, "") would drop)
RECURSIVE TextItems(_, _)
TextItems(sections, n) ==
    IF n = 0 THEN <<>>
    ELSE LET trimmedSection == Trim(sections[n])
             before == TextItems(sections, n - 1)
             colonIndex == ColonIndex(trimmedSection)
             category == Trim(SubSeq(trimmedSection, 1, colonIndex - 1))
             content == Trim(SubSeq(trimmedSection, colonIndex + 1,
                                    Len(trimmedSection)))
         IN  IF trimmedSection = <<>> \/ colonIndex = 0 \/ content = <<>>
             THEN before
             ELSE Append(before,
                         VisionItem(SimpleLabel(category),
                                    ReplaceSemicolons(content)))

\* (?=[A-Z][a-zA-Z\s]*:) at position i of s
HeaderAt(s, i) ==
    /\ i <= Len(s) /\ IsUpper(s[i])
    /\ \E j \in (i + 1)..Len(s) :
           /\ s[j] = ":"
           /\ \A k \in (i + 1)..(j - 1) : IsLetter(s[k]) \/ IsSpace(s[k])

\* text.split(/\n\s*(?=[A-Z][a-zA-Z\s]*:)/)
RECURSIVE SplitSections(_)
SplitSections(s) ==
    LET at == {i \in 1..Len(s) : s[i] = "\n" /\ HeaderAt(s, SkipSpace(s, i + 1))} IN
    IF at = {} THEN <<s>>
    ELSE LET i == CHOOSE j \in at : \A k \in at : j <= k IN
         <<SubSeq(s, 1, i - 1)>>
             \o SplitSections(SubSeq(s, SkipSpace(s, i + 1), Len(s)))

\* text.match(/\{[\s\S]*\}/): from the first opening brace to the last
\* closing one, the empty sequence when there is no match
JsonMatch(s) ==
    LET open == {i \in 1..Len(s) : s[i] = "{"}
        first == CHOOSE i \in open : \A j \in open : i <= j
        close == {i \in 1..Len(s) : s[i] = "}" /\ open # {} /\ i > first}
    IN  IF open = {} \/ close = {} THEN <<>>
        ELSE SubSeq(s, first, SetMax(close))

\* a JSON string without escapes: the characters between its quotes
IsQuoted(s) ==
    /\ Len(s) >= 2 /\ s[1] = "\"" /\ s[Len(s)] = "\""
    /\ \A i \in 2..(Len(s) - 1) : s[i] # "\""
Unquote(s) == SubSeq(s, 2, Len(s) - 1)

\* the members of a flat JSON object whose keys and values are strings
\* without commas, colons or escapes: the form of every JSON text of the
\* model
JsonMembers(jsonText) ==
    TrimAll(Split(SubSeq(jsonText, 2, Len(jsonText) - 1), ","))

IsJsonMember(member) ==
    LET kv == TrimAll(Split(member, ":")) IN
    Len(kv) = 2 /\ IsQuoted(kv[1]) /\ IsQuoted(kv[2])

\* whether JSON.parse(jsonText) returns rather than throws
JsonParses(jsonText) ==
    /\ jsonText # <<>>
    /\ \A i \in DOMAIN JsonMembers(jsonText) : IsJsonMember(JsonMembers(jsonText)[i])

\* JSON.parse(jsonText): a later member of the same key wins
JsonParse(jsonText) ==
    LET members == JsonMembers(jsonText)
        Key(i) == Unquote(TrimAll(Split(members[i], ":"))[1])
        Value(i) == Unquote(TrimAll(Split(members[i], ":"))[2])
    IN  [k \in {Key(i) : i \in DOMAIN members} |->
            Value(SetMax({i \in DOMAIN members : Key(i) = k}))]

\* filter((section) => section.trim())
HasContent(section) == Trim(section) # <<>>

formatVisionAnalysisAsList(text) ==
    LET jsonText == JsonMatch(text)
        fromJson == IF JsonParses(jsonText)
                    THEN JsonItems(JsonParse(jsonText), Len(VISION_FIELDS))
                    ELSE <<>>
        sections == SelectSeq(SplitSections(text), HasContent)
    IN  IF fromJson # <<>> THEN fromJson
        ELSE TextItems(sections, Len(sections))

\* the texts of the vision analyses of the model
AnalysisTexts ==
    {"{\"screen_type\":\"overworld\",\"player_position\":\"grass\"}",
     "{\"screen_type\":\"unreadable\",\"player_position\":\"none\"}",
     "{\"readable_text\":\"unreadable\",\"npcs\":\"a; b\",\"player_position\":\"grass\"}",
     "{\"npcs\":\"none\",\"player_position\":\"unreadable\",\"ui_elements\":\";\"}",
     "Readable Text: a; b\nCharacter Position: grass",
     "Readable Text: unreadable\nVisible NPCs: none",
     "Readable Text:\nCharacter Position: grass",
     "nothing to see"}

\* the characters of a text
Chars(text) ==
    CASE text = "{\"screen_type\":\"overworld\",\"player_position\":\"grass\"}" ->
           <<"{", "\"", "s", "c", "r", "e", "e", "n", "_", "t", "y", "p",
             "e", "\"", ":", "\"", "o", "v", "e", "r", "w", "o", "r", "l",
             "d", "\"", ",", "\"", "p", "l", "a", "y", "e", "r", "_", "p",
             "o", "s", "i", "t", "i", "o", "n", "\"", ":", "\"", "g", "r",
             "a", "s", "s", "\"", "}">>
      [] text = "{\"screen_type\":\"unreadable\",\"player_position\":\"none\"}" ->
           <<"{", "\"", "s", "c", "r", "e", "e", "n", "_", "t", "y", "p",
             "e", "\"", ":", "\"", "u", "n", "r", "e", "a", "d", "a", "b",
             "l", "e", "\"", ",", "\"", "p", "l", "a", "y", "e", "r", "_",
             "p", "o", "s", "i", "t", "i", "o", "n", "\"", ":", "\"", "n",
             "o", "n", "e", "\"", "}">>
      [] text = "{\"readable_text\":\"unreadable\",\"npcs\":\"a; b\",\"player_position\":\"grass\"}" ->
           <<"{", "\"", "r", "e", "a", "d", "a", "b", "l", "e", "_", "t",
             "e", "x", "t", "\"", ":", "\"", "u", "n", "r", "e", "a", "d",
             "a", "b", "l", "e", "\"", ",", "\"", "n", "p", "c", "s", "\"",
             ":", "\"", "a", ";", " ", "b", "\"", ",", "\"", "p", "l", "a",
             "y", "e", "r", "_", "p", "o", "s", "i", "t", "i", "o", "n",
             "\"", ":", "\"", "g", "r", "a", "s", "s", "\"", "}">>
      [] text = "{\"npcs\":\"none\",\"player_position\":\"unreadable\",\"ui_elements\":\";\"}" ->
           <<"{", "\"", "n", "p", "c", "s", "\"", ":", "\"", "n", "o", "n",
             "e", "\"", ",", "\"", "p", "l", "a", "y", "e", "r", "_", "p",
             "o", "s", "i", "t", "i", "o", "n", "\"", ":", "\"", "u", "n",
             "r", "e", "a", "d", "a", "b", "l", "e", "\"", ",", "\"", "u",
             "i", "_", "e", "l", "e", "m", "e", "n", "t", "s", "\"", ":",
             "\"", ";", "\"", "}">>
      [] text = "Readable Text: a; b\nCharacter Position: grass" ->
           <<"R", "e", "a", "d", "a", "b", "l", "e", " ", "T", "e", "x",
             "t", ":", " ", "a", ";", " ", "b", "\n", "C", "h", "a", "r",
             "a", "c", "t", "e", "r", " ", "P", "o", "s", "i", "t", "i",
             "o", "n", ":", " ", "g", "r", "a", "s", "s">>
      [] text = "Readable Text: unreadable\nVisible NPCs: none" ->
           <<"R", "e", "a", "d", "a", "b", "l", "e", " ", "T", "e", "x",
             "t", ":", " ", "u", "n", "r", "e", "a", "d", "a", "b", "l",
             "e", "\n", "V", "i", "s", "i", "b", "l", "e", " ", "N", "P",
             "C", "s", ":", " ", "n", "o", "n", "e">>
      [] text = "Readable Text:\nCharacter Position: grass" ->
           <<"R", "e", "a", "d", "a", "b", "l", "e", " ", "T", "e", "x",
             "t", ":", "\n", "C", "h", "a", "r", "a", "c", "t", "e", "r",
             " ", "P", "o", "s", "i", "t", "i", "o", "n", ":", " ", "g",
             "r", "a", "s", "s">>
      [] text = "nothing to see" ->
           <<"n", "o", "t", "h", "i", "n", "g", " ", "t", "o", " ", "s",
             "e", "e">>
      [] OTHER -> <<>>

----------------------------------------------------------------------------
(* Inputs of the game-mapping specification *)

PhaseParts == {<<>>} \cup {[phase |-> v] : v \in {"Player", "Enemy"}}
TurnParts  == {<<>>, [turnNumber |-> 1]}
ObjParts   == {<<>>, [objective |-> "Seize"]}

GamePayloads == {a @@ b @@ c : a \in PhaseParts, b \in TurnParts, c \in ObjParts}

GameMsgs ==
    {[type |-> t, payload |-> p] : t \in {"state_update", "state_snapshot"},
                                   p \in GamePayloads}
    \cup {[type |-> t] : t \in {"state_update", "state_snapshot"}}

GameKeys == {"phase", "turnNumber", "units", "objective"}

----------------------------------------------------------------------------
(* Specification of the game mapping: snapshots and updates *)

Init ==
    /\ gameState = INITIAL_GAME_STATE
    /\ chronicle = <<>>
    /\ currentScreenshot = ""
    /\ currentSessionId = ""
    /\ logs = <<>>
    /\ aiThoughts = <<>>
    /\ thoughts = <<>>
    /\ lastThoughtRef = EmptyString
    /\ lastProcessedIndexRef = -1
    /\ effectPending = FALSE
    /\ timestamp = NoTimestamp
    /\ screenshotSrc = ""
    /\ isLoading = TRUE
    /\ error = Null
    /\ retryCount = 0
    /\ preloads = {}
    /\ timers = {}
    /\ pkGameState = PK_INITIAL_GAME_STATE
    /\ pkLogs = <<>>
    /\ pkMemoryWrite = Null
    /\ visionState = INITIAL_VISION_STATE
    /\ memoryWrite = Null
    /\ aiProcessing = INITIAL_AI_PROCESSING
    /\ showAllSessions = FALSE
    /\ base64Data = NoBase64
    /\ strictScreenshotSrc = NoSrc
    /\ strictIsLoading = FALSE
    /\ strictError = Null
    /\ strictEffectPending = TRUE
    /\ now = 0
    /\ trace = <<>>
    /\ retained = <<>>

GameUpdate ==
    /\ Len(trace) < MaxEvents
    /\ \E m \in GameMsgs : StateUpdate(m) /\ trace' = Append(trace, m) /\ UNCHANGED retained

GameSnapshot ==
    /\ Len(trace) < MaxEvents
    /\ \E m \in GameMsgs : StateSnapshot(m) /\ trace' = Append(trace, m) /\ UNCHANGED retained

NextGame == GameUpdate \/ GameSnapshot

SpecGame == Init /\ [][NextGame]_vars

----------------------------------------------------------------------------
(* C1 *)

AllUpdates ==
    \A i \in 1..Len(trace) :
        trace[i].type = "state_update" /\ HasPayload(trace[i])

Writers(k) == {i \in 1..Len(trace) : HasPayload(trace[i]) /\ k \in DOMAIN trace[i].payload}

\* C1: after any sequence of state_update events with payloads, every key that
\* some payload carried holds the value of the last payload that carried it,
\* and every other key is as in INITIAL_GAME_STATE (present with its initial
\* value, or absent).
C1_UpdatesFoldLastWriterWins ==
    AllUpdates =>
        /\ DOMAIN gameState \subseteq GameKeys
        /\ \A k \in GameKeys :
              IF Writers(k) = {}
              THEN /\ (k \in DOMAIN gameState) <=> (k \in DOMAIN INITIAL_GAME_STATE)
                   /\ k \in DOMAIN gameState => gameState[k] = INITIAL_GAME_STATE[k]
              ELSE /\ k \in DOMAIN gameState
                   /\ gameState[k] = trace[SetMax(Writers(k))].payload[k]

\* two updates wrote different phases, the later one is the one held, and the
\* never-written key `units` still has its initial value
C1_Witness ==
    /\ AllUpdates
    /\ Len(trace) >= 2
    /\ \E i, j \in Writers("phase") :
          /\ i < j
          /\ j = SetMax(Writers("phase"))
          /\ trace[i].payload.phase # trace[j].payload.phase
          /\ gameState.phase = trace[j].payload.phase
    /\ Writers("units") = {}
    /\ gameState.units = <<>>

----------------------------------------------------------------------------
(* C10 *)

LastIsSnapshot ==
    /\ Len(trace) > 0
    /\ Last(trace).type = "state_snapshot"
    /\ HasPayload(Last(trace))

\* C10: right after a state_snapshot event with a payload the game mapping is
\* that payload, whatever snapshots and updates came before: keys of the
\* previous game that the payload does not carry are gone.
C10_SnapshotReplacesGame ==
    LastIsSnapshot => gameState = Last(trace).payload

\* a snapshot without `objective` arrived right after an update that had set
\* `objective`, and the key is gone
C10_Witness ==
    /\ LastIsSnapshot
    /\ Len(trace) >= 2
    /\ LET prev == trace[Len(trace) - 1] IN
          /\ prev.type = "state_update"
          /\ HasPayload(prev)
          /\ "objective" \in DOMAIN prev.payload
    /\ "objective" \notin DOMAIN Last(trace).payload
    /\ "objective" \notin DOMAIN gameState
    /\ "units" \notin DOMAIN gameState

----------------------------------------------------------------------------
(* Inputs of the chronicle specification *)

\* the capacity the chronicle is documented to have (the stand-alone
\* Chronicle component truncates with slice(-100))
ChronicleCapacity == 100

EntryX1 == [id |-> "x", narrative |-> "n1"]
EntryX2 == [id |-> "x", narrative |-> "n2"]
EntryY1 == [id |-> "y", narrative |-> "n1"]
EntryAnon == [narrative |-> "n1"]
EntryEmptyId == [id |-> "", narrative |-> "n1"]

ChronicleDeltas == {EntryX1, EntryX2, EntryY1, EntryAnon, EntryEmptyId}

FullBatch == [i \in 1..ChronicleCapacity |-> EntryAnon]

ChronicleBatches ==
    {<<>>, <<EntryX1, EntryY1>>, <<EntryX1, EntryX2>>, FullBatch}

ChroniclePayloads ==
    {[chronicle_update |-> e] : e \in ChronicleDeltas}
    \cup {[chronicle_entries |-> b] : b \in ChronicleBatches}
    \cup {[chronicle_entries |-> <<EntryX1, EntryY1>>, chronicle_update |-> EntryX2]}

ChronicleMsgs ==
    {[type |-> t, payload |-> p] : t \in {"state_update", "state_snapshot"},
                                   p \in ChroniclePayloads}
    \cup {[type |-> t] : t \in {"state_update", "state_snapshot"}}

----------------------------------------------------------------------------
(* Specification of the chronicle: batches and deltas *)

ChronicleUpdate ==
    /\ Len(trace) < MaxEvents
    /\ \E m \in ChronicleMsgs : StateUpdate(m) /\ trace' = Append(trace, m) /\ UNCHANGED retained

ChronicleSnapshot ==
    /\ Len(trace) < MaxEvents
    /\ \E m \in ChronicleMsgs : StateSnapshot(m) /\ trace' = Append(trace, m) /\ UNCHANGED retained

NextChronicle == ChronicleUpdate \/ ChronicleSnapshot

SpecChronicle == Init /\ [][NextChronicle]_vars

\* entry e carries the non-empty id x
EntryHasId(e, x) == "id" \in DOMAIN e /\ e.id = x /\ x # NoId

IdPositions(c, x) == {i \in 1..Len(c) : EntryHasId(c[i], x)}

\* message m is a state_update whose chronicle_update delta is the one applied
\* (no chronicle_entries batch takes precedence)
DeltaApplied(m) ==
    /\ m.type = "state_update"
    /\ HasPayload(m)
    /\ "chronicle_update" \in DOMAIN m.payload
    /\ "chronicle_entries" \notin DOMAIN m.payload

IdDeltaApplied(m) ==
    DeltaApplied(m) /\ TruthyStr(m.payload.chronicle_update, "id")

----------------------------------------------------------------------------
(* C2 *)

\* C2: in every reachable state no two entries of chronicle share the same
\* non-empty id.
C2_NoDuplicateIds ==
    \A i, j \in 1..Len(chronicle) :
        (i < j /\ TruthyStr(chronicle[i], "id")) => ~EntryHasId(chronicle[j], chronicle[i].id)

----------------------------------------------------------------------------
(* C3 *)

\* C3: the chronicle never holds more than its capacity of 100 entries.
C3_ChronicleWithinCapacity == Len(chronicle) <= ChronicleCapacity

----------------------------------------------------------------------------
(* C5 *)

\* C5: a step that applies a chronicle_update delta with non-empty id x leaves
\* exactly one entry with id x, equal to the delta, at the end of the list,
\* and before it the other entries of the previous list in their old order.
C5_DeltaReplacesAndMovesToTail ==
    [][ (trace' # trace /\ IdDeltaApplied(Last(trace'))) =>
            LET u == Last(trace').payload.chronicle_update IN
            /\ Cardinality(IdPositions(chronicle', u.id)) = 1
            /\ Last(chronicle') = u
            /\ SubSeq(chronicle', 1, Len(chronicle') - 1) =
                   SelectSeq(chronicle, LAMBDA e : ~EntryHasId(e, u.id)) ]_vars

\* a delta with id x has just replaced a different entry with id x that was
\* not at the tail of the batch loaded before it
C5_Witness ==
    /\ Len(trace) >= 2
    /\ IdDeltaApplied(Last(trace))
    /\ LET u == Last(trace).payload.chronicle_update
           prev == trace[Len(trace) - 1]
       IN  /\ HasPayload(prev)
           /\ "chronicle_entries" \in DOMAIN prev.payload
           /\ Len(prev.payload.chronicle_entries) >= 2
           /\ EntryHasId(prev.payload.chronicle_entries[1], u.id)
           /\ prev.payload.chronicle_entries[1] # u
           /\ Len(chronicle) = Len(prev.payload.chronicle_entries)
           /\ Last(chronicle) = u
           /\ IdPositions(chronicle, u.id) = {Len(chronicle)}

----------------------------------------------------------------------------
(* C6 *)

SameDeltaAgain ==
    /\ trace' # trace
    /\ Len(trace) >= 1
    /\ Last(trace') = Last(trace)
    /\ DeltaApplied(Last(trace))

\* C6 as stated: applying the same chronicle_update delta a second time in a
\* row leaves the chronicle as the first application left it, for every delta.
C6_Original_MergeIdempotent ==
    [][ SameDeltaAgain => chronicle' = chronicle ]_vars

\* C6 amended: applying the same chronicle_update delta a second time in a row
\* leaves the chronicle as the first application left it, for every delta
\* that has a non-empty id.
C6_IdDeltaMergeIdempotent ==
    [][ (SameDeltaAgain /\ IdDeltaApplied(Last(trace))) => chronicle' = chronicle ]_vars

\* the same delta with an id has been applied twice in a row on a chronicle
\* that holds other entries too
C6_Witness ==
    /\ Len(trace) >= 3
    /\ Last(trace) = trace[Len(trace) - 1]
    /\ IdDeltaApplied(Last(trace))
    /\ Len(chronicle) >= 2
    /\ Cardinality(IdPositions(chronicle, Last(trace).payload.chronicle_update.id)) = 1
    /\ Last(chronicle) = Last(trace).payload.chronicle_update

----------------------------------------------------------------------------
(* Specification of the action log: log_entry events over time *)

MaxClock == 1           \* clock readings 0..MaxClock
MaxLogPushes == 102     \* log entries stored in the action-log specification

LogMsgs ==
    {[type |-> "log_entry", payload |-> [text |-> "m", category |-> c]] :
         c \in {"action", "system", "bogus"}}
    \cup {[type |-> "log_entry", payload |-> [text |-> "m"]],
          [type |-> "log_entry", payload |-> [text |-> "", category |-> "action"]],
          [type |-> "log_entry", payload |-> [category |-> "action"]],
          [type |-> "log_entry"]}

\* the event is one the action log keeps: it has a text and its category is on
\* the allow-list
KeptLogEvent(m) ==
    /\ HasPayload(m)
    /\ "text" \in DOMAIN m.payload /\ m.payload.text # ""
    /\ "category" \in DOMAIN m.payload
    /\ m.payload.category \in {"movement", "combat", "action", "battle", "ai"}

LogsLogEntry ==
    /\ Len(retained) < MaxLogPushes
    /\ \E m \in LogMsgs :
          /\ LogEntry(m)
          /\ retained' =
                 IF KeptLogEvent(m)
                 THEN Append(retained, [id |-> now, message |-> m.payload.text,
                                        type |-> m.payload.category])
                 ELSE retained
    /\ UNCHANGED trace

LogsTick ==
    /\ now < MaxClock
    /\ Tick
    /\ UNCHANGED histVars

NextLogs == LogsLogEntry \/ LogsTick

SpecLogs == Init /\ [][NextLogs]_vars

----------------------------------------------------------------------------
(* C8 *)

\* C8: the action log never holds more than 100 entries, and it is the
\* newest-first list of the most recently stored entries: its i-th element is
\* the i-th youngest entry ever stored, so a push beyond capacity drops the
\* oldest entry and no other.
C8_LogsAreNewestHundred ==
    /\ Len(logs) <= 100
    /\ Len(logs) = (IF Len(retained) < 100 THEN Len(retained) ELSE 100)
    /\ \A i \in 1..Len(logs) : logs[i] = retained[Len(retained) - i + 1]

\* 102 entries were stored, the two oldest (stored at clock 0) are gone and
\* the oldest one still held was stored at clock 1
C8_Witness ==
    /\ Len(retained) = 102
    /\ retained[1].id = 0
    /\ retained[2].id = 0
    /\ retained[3].id = 1
    /\ Len(logs) = 100
    /\ logs[1] = retained[102]
    /\ logs[100] = retained[3]
    /\ logs[100].id = 1

----------------------------------------------------------------------------
(* Specification of the thought pipeline: ai_thought events over time *)

ThoughtMsgs ==
    {[type |-> "ai_thought", payload |-> [thought |-> t]] :
         t \in {<<"a">>, <<"b">>, <<>>}}
    \cup {[type |-> "ai_thought"]}

ThoughtsAiThought ==
    /\ Len(trace) < MaxEvents
    /\ \E m \in ThoughtMsgs : AiThought(m) /\ trace' = Append(trace, m)
    /\ UNCHANGED retained

ThoughtsEffect == ThoughtEffect /\ UNCHANGED histVars

ThoughtsTick == now < MaxClock /\ Tick /\ UNCHANGED histVars

NextThoughts == ThoughtsAiThought \/ ThoughtsEffect \/ ThoughtsTick

SpecThoughts == Init /\ [][NextThoughts]_vars

\* the thought strings delivered so far (events that carry a non-empty thought)
RECURSIVE DeliveredFrom(_)
DeliveredFrom(i) ==
    IF i > Len(trace) THEN <<>>
    ELSE IF HasPayload(trace[i]) /\ "thought" \in DOMAIN trace[i].payload
            /\ trace[i].payload.thought # <<>>
         THEN <<trace[i].payload.thought>> \o DeliveredFrom(i + 1)
         ELSE DeliveredFrom(i + 1)

Delivered == DeliveredFrom(1)

\* s without the elements equal to their immediate predecessor
RECURSIVE Collapse(_)
Collapse(s) ==
    IF Len(s) <= 1 THEN s
    ELSE LET front == Collapse(SubSeq(s, 1, Len(s) - 1)) IN
         IF s[Len(s)] = s[Len(s) - 1] THEN front ELSE Append(front, s[Len(s)])

----------------------------------------------------------------------------
(* C7 *)

\* C7: a thought equal to the one delivered immediately before it is dropped,
\* whatever the time between the two: once the effect has run, the thoughts
\* list has one entry per delivered thought that differs from its predecessor.
C7_RepeatedThoughtDiscarded ==
    (~effectPending /\ Len(Collapse(Delivered)) <= 20) =>
        /\ Len(thoughts) = Len(Collapse(Delivered))
        /\ \A i \in 1..Len(thoughts) : thoughts[i].text = Collapse(Delivered)[i]

----------------------------------------------------------------------------
(* Specification of the best-effort vision loader *)

MaxTimestamp == 2       \* vision timestamps 1..MaxTimestamp, in increasing order

\* a vision event for a later timestamp arrives
VisionNewTimestamp ==
    \E ts \in 1..MaxTimestamp : ts > timestamp /\ VisionRequest(ts) /\ UNCHANGED histVars

VisionPreloadLoaded ==
    \E r \in preloads : PreloadLoaded(r) /\ UNCHANGED histVars

VisionPreloadFailed ==
    \E r \in preloads : PreloadFailed(r) /\ UNCHANGED histVars

VisionRetryTimerFires ==
    \E r \in timers : RetryTimerFires(r) /\ UNCHANGED histVars

NextVision ==
    \/ VisionNewTimestamp
    \/ VisionPreloadLoaded
    \/ VisionPreloadFailed
    \/ VisionRetryTimerFires

SpecVision == Init /\ [][NextVision]_vars

\* what the component displays
display == <<screenshotSrc, isLoading, error>>

\* this step runs a preload callback or a retry timer of a superseded request
StaleCallbackStep ==
    \E r \in preloads \cup timers :
        /\ r.ts < timestamp
        /\ \/ r \in preloads /\ r \notin preloads'
           \/ r \in timers /\ r \notin timers'

\* the request for the current timestamp has settled as ready
SettledReady ==
    /\ timestamp # NoTimestamp
    /\ ~isLoading
    /\ error = Null
    /\ screenshotSrc = ScreenshotUrl(timestamp)
    /\ \A r \in preloads \cup timers : r.ts # timestamp

----------------------------------------------------------------------------
(* C4 *)

\* C4: once a newer timestamp has been requested, (1) no retry timer of an
\* older request stays armed, (2) no preload callback or retry timer of an
\* older request changes the displayed status or image reference, and (3) once
\* the newer request has settled as ready the display stays ready with the
\* newer image reference until the timestamp changes again.
C4_SupersededRequestIsInert ==
    [][ /\ (timestamp' # timestamp => \A r \in timers' : r.ts = timestamp')
        /\ (StaleCallbackStep => display' = display)
        /\ ((SettledReady /\ timestamp' = timestamp) => SettledReady')
      ]_vars

----------------------------------------------------------------------------
(* Specification of the Pokemon-mode logs *)

MaxPkEvents == 3        \* messages dispatched in the Pokemon-mode specification

SrvLog(n, text) == [id |-> <<"srv", n>>, text |-> text]

HistoryOfLength(n) == [i \in 1..n |-> SrvLog(i, "h")]

PkLogData ==
    {[log_entry |-> SrvLog(1, "t")],
     [log_entry |-> [text |-> "t", is_action |-> TRUE]],
     [log_entry |-> [text |-> ""]],
     [vision_log |-> [text |-> "v", timestamp |-> 5]],
     [response_log |-> [text |-> "r"]],
     [logs |-> <<SrvLog(2, "b"), [message |-> "c", is_vision |-> TRUE]>>],
     [log_history |-> <<>>],
     [log_history |-> <<SrvLog(3, "h"), [text |-> "g", is_response |-> TRUE]>>],
     [log_history |-> HistoryOfLength(PkLogCapacity - 1)],
     [log_history |-> HistoryOfLength(PkLogCapacity + 1)],
     [log_history |-> HistoryOfLength(PkLogCapacity - 1), log_entry |-> SrvLog(1, "t"),
      vision_log |-> [text |-> "v"]],
     [actions |-> 1, log_entry |-> SrvLog(1, "t")],
     [memory_write |-> [text |-> "note"]]}

PkLogsMessage ==
    /\ Len(trace) < MaxPkEvents
    /\ \E data \in PkLogData : PkHandleGameUpdate(data) /\ trace' = Append(trace, data)
    /\ UNCHANGED retained

NextPkLogs == PkLogsMessage

SpecPkLogs == Init /\ [][NextPkLogs]_vars

\* the number of log entries message data asks to add in front of the buffer
PkAdded(data) ==
    (IF "log_entry" \in DOMAIN data /\ "text" \in DOMAIN data.log_entry
        /\ data.log_entry.text # "" THEN 1 ELSE 0)
    + (IF "vision_log" \in DOMAIN data /\ "text" \in DOMAIN data.vision_log
        /\ data.vision_log.text # "" THEN 1 ELSE 0)
    + (IF "response_log" \in DOMAIN data /\ "text" \in DOMAIN data.response_log
        /\ data.response_log.text # "" THEN 1 ELSE 0)
    + (IF "logs" \in DOMAIN data THEN Len(data.logs) ELSE 0)

----------------------------------------------------------------------------
(* C9 *)

\* C9: whatever a message carries (log_entry, vision_log, response_log, bulk
\* logs, log_history), the Pokemon-mode logs buffer holds at most 3000 entries
\* afterwards, and a message that pushes entries keeps the previous entries in
\* order behind the new ones, dropping only from the oldest end once the
\* buffer is full.
C9_PkLogsWithinCapacity ==
    [][ trace' # trace =>
          LET data == Last(trace')
              added == PkAdded(data)
          IN  /\ Len(pkLogs') <= 3000
              /\ "log_history" \notin DOMAIN data =>
                    /\ Len(pkLogs') =
                          (IF Len(pkLogs) + added < 3000 THEN Len(pkLogs) + added ELSE 3000)
                    /\ \A i \in 1..(Len(pkLogs') - added) : pkLogs'[added + i] = pkLogs[i]
      ]_vars

----------------------------------------------------------------------------
(* The router specification: every case of handleGameUpdate, fed with       *)
(* messages that carry, or lack, the field their case reads.                *)

SessionEntry(id, session) ==
    [id |-> id, session_id |-> session, narrative |-> "n"]

RouterMsgs ==
    {[type |-> "state_snapshot"],
     [type |-> "state_snapshot",
      payload |-> [phase |-> "Enemy", turnNumber |-> 2, units |-> <<>>,
                   screenshotUrl |-> "/s2.png", session_id |-> "s2",
                   chronicle_entries |-> <<SessionEntry("x", "s2")>>]],
     [type |-> "state_update"],
     [type |-> "state_update",
      payload |-> [turnNumber |-> 1, screenshotUrl |-> "/s1.png",
                   session_id |-> "s1"]],
     [type |-> "state_update",
      payload |-> [chronicle_update |-> SessionEntry("y", "s1")]],
     [type |-> "log_entry"],
     [type |-> "log_entry", payload |-> [id |-> 7, category |-> "action"]],
     [type |-> "log_entry",
      payload |-> [id |-> 7, text |-> "m", category |-> "action"]],
     [type |-> "vision_update"],
     [type |-> "vision_update",
      payload |-> [description |-> "d", processing |-> TRUE]],
     [type |-> "vision_status"],
     [type |-> "vision_status", payload |-> [processing |-> TRUE]],
     [type |-> "ai_thought"],
     [type |-> "ai_thought", payload |-> [thought |-> <<"t">>]],
     [type |-> "memory_write", payload |-> <<>>],
     [type |-> "memory_write", payload |-> [text |-> "n1"]],
     [type |-> "ai_processing", payload |-> [model |-> "m"]],
     [type |-> "ai_processing",
      payload |-> [status |-> "thinking", model |-> "m"]],
     [type |-> "ai_processing", payload |-> [status |-> "paused"]],
     [type |-> "session_start", payload |-> [start_time |-> "t0"]],
     [type |-> "session_start",
      payload |-> [session_id |-> "s1", start_time |-> "t0"]],
     [type |-> "heartbeat", payload |-> [status |-> "thinking", text |-> "n2"]],
     [payload |-> [text |-> "n2"]]}

OfType(t) == {m \in RouterMsgs : MessageType(m) = t}

Unhandled == {m \in RouterMsgs : MessageType(m) \notin HandledTypes}

Dispatched(m) ==
    /\ Len(trace) < MaxEvents
    /\ trace' = Append(trace, m)
    /\ UNCHANGED retained

RouterStateSnapshot == \E m \in OfType("state_snapshot") : StateSnapshot(m) /\ Dispatched(m)
RouterStateUpdate   == \E m \in OfType("state_update") : StateUpdate(m) /\ Dispatched(m)
RouterLogEntry      == \E m \in OfType("log_entry") : LogEntry(m) /\ Dispatched(m)
RouterVisionUpdate  == \E m \in OfType("vision_update") : VisionUpdate(m) /\ Dispatched(m)
RouterVisionStatus  == \E m \in OfType("vision_status") : VisionStatus(m) /\ Dispatched(m)
RouterAiThought     == \E m \in OfType("ai_thought") : AiThought(m) /\ Dispatched(m)
RouterMemoryWrite   == \E m \in OfType("memory_write") : MemoryWrite(m) /\ Dispatched(m)
RouterAiProcessing  == \E m \in OfType("ai_processing") : AiProcessing(m) /\ Dispatched(m)
RouterSessionStart  == \E m \in OfType("session_start") : SessionStart(m) /\ Dispatched(m)
RouterUnhandled     == \E m \in Unhandled : UnhandledMessage(m) /\ Dispatched(m)

NextRouter ==
    \/ RouterStateSnapshot
    \/ RouterStateUpdate
    \/ RouterLogEntry
    \/ RouterVisionUpdate
    \/ RouterVisionStatus
    \/ RouterAiThought
    \/ RouterMemoryWrite
    \/ RouterAiProcessing
    \/ RouterSessionStart
    \/ RouterUnhandled

SpecRouter == Init /\ [][NextRouter]_vars

\* the live state: every cell of the store
liveState == <<storeVars, panelVars>>

\* this step dispatches a message
Dispatches == trace' # trace

\* the message this step dispatches
Incoming == Last(trace')

----------------------------------------------------------------------------
(* C11 *)

NeedsPayload == {"state_snapshot", "state_update", "vision_update", "vision_status"}

RequiredField ==
    [log_entry |-> "text", ai_thought |-> "thought", memory_write |-> "text",
     ai_processing |-> "status", session_start |-> "session_id"]

\* the message lacks what its case requires
LacksRequired(m) ==
    LET t == MessageType(m) IN
    \/ t \in NeedsPayload /\ ~HasPayload(m)
    \/ /\ t \in DOMAIN RequiredField
       /\ \/ ~HasPayload(m)
          \/ t # "ai_thought" /\ ~TruthyStr(m.payload, RequiredField[t])
          \/ t = "ai_thought" /\ ~TruthyText(m.payload, RequiredField[t])

\* C11: a dispatched event whose payload is absent, or lacks the field its
\* case requires, leaves every component of the live state unchanged.
C11_MissingFieldIsNoOp ==
    [][Dispatches /\ LacksRequired(Incoming) => UNCHANGED liveState]_vars

----------------------------------------------------------------------------
(* C12 *)

\* the message before the one dispatched last was not recognised
AfterUnhandled ==
    /\ Len(trace) >= 2
    /\ MessageType(trace[Len(trace) - 1]) \notin HandledTypes

\* C12: an event of an unrecognised type, or of no type, changes no
\* component of the live state, and the event dispatched after it is
\* processed as usual: a note, a status or a session id it carries is stored.
C12_UnhandledIsNoOp ==
    /\ [][Dispatches /\ MessageType(Incoming) \notin HandledTypes
            => UNCHANGED liveState]_vars
    /\ [](AfterUnhandled /\ ~LacksRequired(Last(trace)) =>
            LET m == Last(trace) IN
            /\ MessageType(m) = "memory_write" => memoryWrite = m.payload.text
            /\ MessageType(m) = "ai_processing" => aiProcessing.status = m.payload.status
            /\ MessageType(m) = "session_start" => currentSessionId = m.payload.session_id
            /\ MessageType(m) = "vision_update" => visionState.description = m.payload.description)

\* an unrecognised event arrived in a state that was no longer the initial
\* one, and a note dispatched after it was stored
C12_Witness ==
    /\ Len(trace) = 3
    /\ MessageType(trace[2]) \notin HandledTypes
    /\ aiProcessing.status = "thinking"
    /\ MessageType(trace[3]) = "memory_write"
    /\ memoryWrite = "n1"

----------------------------------------------------------------------------
(* The memory-note specification: both stores receive messages and both     *)
(* consumers may clear the note.                                            *)

\* switch (type) of handleGameUpdate
HandleGameUpdate(m) ==
    LET t == MessageType(m) IN
    CASE t = "state_snapshot" -> StateSnapshot(m)
      [] t = "state_update"   -> StateUpdate(m)
      [] t = "log_entry"      -> LogEntry(m)
      [] t = "vision_update"  -> VisionUpdate(m)
      [] t = "vision_status"  -> VisionStatus(m)
      [] t = "ai_thought"     -> AiThought(m)
      [] t = "memory_write"   -> MemoryWrite(m)
      [] t = "ai_processing"  -> AiProcessing(m)
      [] t = "session_start"  -> SessionStart(m)
      [] OTHER                -> UnhandledMessage(m)

MemoryMsgs ==
    {[type |-> "memory_write"],
     [type |-> "memory_write", payload |-> [text |-> ""]],
     [type |-> "memory_write", payload |-> [text |-> "n1"]],
     [type |-> "memory_write", payload |-> [text |-> "n2"]],
     [type |-> "state_snapshot", payload |-> [phase |-> "Enemy", text |-> "n3"]],
     [type |-> "state_update", payload |-> [text |-> ""]],
     [type |-> "log_entry", payload |-> [text |-> "n3", category |-> "action"]],
     [type |-> "vision_update"],
     [type |-> "vision_status", payload |-> [processing |-> TRUE]],
     [type |-> "ai_thought", payload |-> [thought |-> <<"t">>]],
     [type |-> "ai_processing", payload |-> [status |-> "thinking"]],
     [type |-> "session_start", payload |-> [session_id |-> "s1"]],
     [type |-> "memory_clear", payload |-> [text |-> ""]]}

PkMemoryData ==
    {[memory_write |-> [text |-> "p1"]],
     [memory_write |-> [text |-> "p2"], actions |-> 1],
     [memory_write |-> [text |-> ""]],
     [memory_write |-> <<>>, log_entry |-> [text |-> "t"]],
     [actions |-> 2]}

\* a message of the Pokemon-mode socket, as recorded in the history
PkDelivery(data) == [store |-> "pokemon", data |-> data]

MemoryDispatch ==
    \E m \in MemoryMsgs : HandleGameUpdate(m) /\ Dispatched(m)

MemoryClear == ClearMemoryWrite /\ UNCHANGED histVars

MemoryPkDispatch ==
    \E data \in PkMemoryData :
        PkHandleGameUpdate(data) /\ Dispatched(PkDelivery(data))

MemoryPkClear == PkClearMemoryWrite /\ UNCHANGED histVars

NextMemory == MemoryDispatch \/ MemoryClear \/ MemoryPkDispatch \/ MemoryPkClear

SpecMemory == Init /\ [][NextMemory]_vars

----------------------------------------------------------------------------
(* C13 *)

IsPkDelivery(m) == "store" \in DOMAIN m

\* the message is a memory_write that carries a non-empty text
CarriesNote(m) ==
    /\ ~IsPkDelivery(m)
    /\ MessageType(m) = "memory_write"
    /\ HasPayload(m) /\ "text" \in DOMAIN m.payload /\ m.payload.text # ""

PkCarriesNote(m) ==
    /\ IsPkDelivery(m)
    /\ "memory_write" \in DOMAIN m.data
    /\ "text" \in DOMAIN m.data.memory_write
    /\ m.data.memory_write.text # ""

\* C13: a memory_write event with a non-empty text replaces the note; every
\* other transport event leaves the note as it was; a step that empties a
\* note is never the dispatch of a message (it is the consumer's clear).
\* This holds of the note of either store.
C13_NoteSurvivesEvents ==
    [][/\ Dispatches /\ ~IsPkDelivery(Incoming) =>
            /\ UNCHANGED pkMemoryWrite
            /\ memoryWrite' = IF CarriesNote(Incoming)
                              THEN Incoming.payload.text ELSE memoryWrite
       /\ Dispatches /\ IsPkDelivery(Incoming) =>
            /\ UNCHANGED memoryWrite
            /\ pkMemoryWrite' = IF PkCarriesNote(Incoming)
                                THEN Incoming.data.memory_write.text
                                ELSE pkMemoryWrite
       /\ memoryWrite # Null /\ memoryWrite' = Null => ~Dispatches
       /\ pkMemoryWrite # Null /\ pkMemoryWrite' = Null => ~Dispatches]_vars

\* both stores hold a note, and the message dispatched last was not a
\* memory_write
C13_Witness ==
    /\ memoryWrite = "n1"
    /\ pkMemoryWrite = "p1"
    /\ Len(trace) = 3
    /\ ~IsPkDelivery(Last(trace))
    /\ MessageType(Last(trace)) \notin {"memory_write"}

----------------------------------------------------------------------------
(* C14 *)

AiStatuses == {"idle", "thinking", "complete", "error"}

\* C14: the status of aiProcessing is always idle, thinking, complete or
\* error, whatever ai_processing payloads were received.
C14_AiStatusInRange == aiProcessing.status \in AiStatuses

----------------------------------------------------------------------------
(* C15 *)

SideChannelKeys == {"screenshotUrl", "session_id", "chronicle_entries", "chronicle_update"}

\* the message dispatched last is a state_update or state_snapshot with a payload
LastIsStateMessage ==
    /\ trace # <<>>
    /\ MessageType(Last(trace)) \in {"state_update", "state_snapshot"}
    /\ HasPayload(Last(trace))

\* the side-channel field k of payload p is in its sub-store
Routed(p, k) ==
    CASE k = "screenshotUrl"     -> currentScreenshot = p.screenshotUrl
      [] k = "session_id"        -> currentSessionId = p.session_id
      [] k = "chronicle_entries" -> chronicle = p.chronicle_entries
      [] k = "chronicle_update"  ->
             \/ "chronicle_entries" \in DOMAIN p
             \/ chronicle # <<>> /\ Last(chronicle) = p.chronicle_update

\* C15: after a state_update or state_snapshot whose payload carries a
\* side-channel field, the field is in its own sub-store and the game
\* mapping does not contain its key.
C15_SideChannelsPeeledOff ==
    LastIsStateMessage =>
        \A k \in SideChannelKeys \cap DOMAIN Last(trace).payload :
            /\ Routed(Last(trace).payload, k)
            /\ k \notin DOMAIN gameState

----------------------------------------------------------------------------
(* C17 *)

\* the message is a log_entry that addLog stores, and it carries an id
IdentifiedLog(m) ==
    /\ MessageType(m) = "log_entry"
    /\ HasPayload(m) /\ TruthyStr(m.payload, "text")
    /\ "id" \in DOMAIN m.payload
    /\ LogCategory(m.payload) \in GAMEPLAY_LOG_TYPES

\* C17: when the same log entry (same id and text) was delivered twice, the
\* logs buffer holds a single entry for it.
C17_LogsDeduplicated ==
    \A i, j \in DOMAIN trace :
        i < j /\ trace[i] = trace[j] /\ IdentifiedLog(trace[i]) =>
            Cardinality({k \in DOMAIN logs :
                            logs[k].message = trace[i].payload.text}) = 1

----------------------------------------------------------------------------
(* The session-filter specification: the chronicle grows, sessions start,   *)
(* and the viewer toggles the show-all-sessions flag.                       *)

SessionMsgs ==
    {[type |-> "state_update", payload |-> [chronicle_update |-> SessionEntry("a", "s1")]],
     [type |-> "state_update", payload |-> [chronicle_update |-> SessionEntry("b", "s2")]],
     [type |-> "state_update", payload |-> [chronicle_update |-> SessionEntry("c", "s1")]],
     [type |-> "state_update",
      payload |-> [chronicle_update |-> [id |-> "d", narrative |-> "n"]]],
     [type |-> "state_update",
      payload |-> [chronicle_entries |->
                      <<SessionEntry("b", "s2"), SessionEntry("a", "s1"),
                        SessionEntry("e", "s2")>>]],
     [type |-> "state_update", payload |-> [session_id |-> "s2"]],
     [type |-> "session_start", payload |-> [session_id |-> "s1"]],
     [type |-> "session_start", payload |-> [session_id |-> "s2"]],
     [type |-> "session_start", payload |-> [start_time |-> "t0"]]}

SessionsStateUpdate ==
    \E m \in {x \in SessionMsgs : x.type = "state_update"} :
        StateUpdate(m) /\ Dispatched(m)

SessionsSessionStart ==
    \E m \in {x \in SessionMsgs : x.type = "session_start"} :
        SessionStart(m) /\ Dispatched(m)

SessionsToggle == ToggleAllSessions /\ UNCHANGED histVars

NextSessions == SessionsStateUpdate \/ SessionsSessionStart \/ SessionsToggle

SpecSessions == Init /\ [][NextSessions]_vars

----------------------------------------------------------------------------
(* C16 *)

\* positions of the chronicle entries that belong to the active session
SessionPositions ==
    {i \in DOMAIN chronicle :
        /\ "session_id" \in DOMAIN chronicle[i]
        /\ chronicle[i].session_id = currentSessionId}

\* f is the in-order subsequence of the chronicle at SessionPositions
IsSessionSubsequence(f) ==
    /\ Len(f) = Cardinality(SessionPositions)
    /\ \A i \in SessionPositions :
           f[Cardinality({j \in SessionPositions : j <= i})] = chronicle[i]

\* toggling the flag, or a session_start, leaves the stored chronicle alone
FilterNeverWrites ==
    [][/\ showAllSessions' # showAllSessions => UNCHANGED chronicle
       /\ Dispatches /\ MessageType(Incoming) = "session_start"
             => UNCHANGED chronicle]_vars

\* C16 as stated: with the flag off the displayed chronicle is exactly the
\* in-order subsequence of the entries of the active session, with the flag
\* on it is the whole chronicle, and neither the toggle nor a change of
\* session writes to the stored chronicle.
C16_Original_ProjectionBySession ==
    /\ [](~showAllSessions => IsSessionSubsequence(filteredChronicle))
    /\ [](showAllSessions => filteredChronicle = chronicle)
    /\ FilterNeverWrites

\* C16, amended: the subsequence is displayed while the flag is off and a
\* session is active; while the flag is on, or no session is active yet, the
\* whole chronicle is displayed; neither the toggle nor a change of session
\* writes to the stored chronicle.
C16_ProjectionBySessionWhenActive ==
    /\ [](~showAllSessions /\ currentSessionId # ""
             => IsSessionSubsequence(filteredChronicle))
    /\ [](showAllSessions \/ currentSessionId = ""
             => filteredChronicle = chronicle)
    /\ FilterNeverWrites

\* the flag is off again after a toggle, a session is active, and the filter
\* hides some entries and shows others
C16_Witness ==
    /\ ~showAllSessions
    /\ currentSessionId = "s1"
    /\ Len(filteredChronicle) >= 1
    /\ Len(filteredChronicle) < Len(chronicle)
    /\ Len(trace) = MaxEvents

----------------------------------------------------------------------------
(* The loader specification: the best-effort loader with the callback that  *)
(* ran last kept in the history.  loadScreenshot(retryAttempt + 1) is only  *)
(* ever called by the timer armed in the onerror of attempt retryAttempt,   *)
(* so a preload numbered k exists only after k failed preloads of the same  *)
(* request.                                                                 *)

Callback(name, r) == [callback |-> name, ts |-> r.ts, retryAttempt |-> r.retryAttempt]

\* the history keeps the callback that ran last
Ran(name, r) == trace' = <<Callback(name, r)>> /\ UNCHANGED retained

LoaderNewTimestamp ==
    \E ts \in 1..MaxTimestamp :
        ts > timestamp /\ VisionRequest(ts) /\ Ran("effect", Request(ts, 0))

LoaderPreloadLoaded == \E r \in preloads : PreloadLoaded(r) /\ Ran("onload", r)

LoaderPreloadFailed == \E r \in preloads : PreloadFailed(r) /\ Ran("onerror", r)

LoaderRetryTimerFires == \E r \in timers : RetryTimerFires(r) /\ Ran("timer", r)

NextLoader ==
    \/ LoaderNewTimestamp
    \/ LoaderPreloadLoaded
    \/ LoaderPreloadFailed
    \/ LoaderRetryTimerFires

SpecLoader == Init /\ [][NextLoader]_vars

\* every preload eventually completes, one way or the other, and every
\* retry timer eventually fires
SpecLoaderFair ==
    /\ SpecLoader
    /\ WF_vars(LoaderPreloadLoaded \/ LoaderPreloadFailed)
    /\ WF_vars(LoaderRetryTimerFires)

\* the callback that ran last
LastCallback == trace[1]

\* the request for timestamp ts has a preload in flight or a timer armed
Pending(ts) == \E r \in preloads \cup timers : r.ts = ts

----------------------------------------------------------------------------
(* C18 *)

\* the last preload of a request has just failed
FinalFailure(ts) ==
    /\ trace # <<>>
    /\ LastCallback = Callback("onerror", Request(ts, MAX_RETRIES))

\* a preload of the request has just loaded
JustLoaded(ts) ==
    /\ trace # <<>>
    /\ LastCallback.callback = "onload"
    /\ LastCallback.ts = ts

\* C18: a request makes one initial attempt and at most MAX_RETRIES retries;
\* when its last attempt fails it settles in the terminal error state and
\* nothing further is scheduled for it; and, given that every preload
\* completes and every timer fires, every request eventually settles, as
\* ready or as error.
C18_BoundedRetriesThenSettles ==
    /\ [](/\ \A r \in preloads : r.retryAttempt <= MAX_RETRIES
          /\ \A r \in timers : r.retryAttempt < MAX_RETRIES)
    /\ [](\A ts \in 1..MaxTimestamp :
             FinalFailure(ts) =>
                 ~isLoading /\ error = LoadError /\ ~Pending(ts))
    /\ \A ts \in 1..MaxTimestamp :
           Pending(ts) ~>
               /\ ~Pending(ts)
               /\ ~isLoading
               /\ \/ JustLoaded(ts) /\ error = Null
                  \/ FinalFailure(ts) /\ error = LoadError

\* the fourth preload of a request has failed and the loader is at rest in
\* the error state
C18_Witness ==
    /\ \E ts \in 1..MaxTimestamp : FinalFailure(ts)
    /\ preloads = {}
    /\ timers = {}
    /\ ~isLoading
    /\ error = LoadError

----------------------------------------------------------------------------
(* C19 *)

\* the fourth preload of a request has just loaded, after three failures
LoadedOnLastAttempt ==
    /\ trace # <<>>
    /\ LastCallback.callback = "onload"
    /\ LastCallback.retryAttempt = MAX_RETRIES

\* C19: three failed preloads followed by a successful fourth leave the
\* retry counter at zero and the display ready: not loading, no error.
C19_SuccessAfterRetriesIsReady ==
    LoadedOnLastAttempt => retryCount = 0 /\ ~isLoading /\ error = Null

\* the fourth preload of the latest request has loaded and the loader is at
\* rest
C19_Witness ==
    /\ LoadedOnLastAttempt
    /\ LastCallback.ts = MaxTimestamp
    /\ preloads = {}
    /\ timers = {}
    /\ ~isLoading

----------------------------------------------------------------------------
(* The strict-sync specification: the parent renders the component with     *)
(* the embedded image of one vision entry after another.                    *)

MaxImages == 6          \* distinct embedded images 1..MaxImages

\* the base64Data an entry can carry: none, or one of the images
Base64Inputs == {NoBase64} \cup {<<i>> : i \in 1..MaxImages}

\* the history keeps the base64Data of the entry rendered before
StrictNewEntry ==
    \E data \in Base64Inputs :
        StrictRender(data) /\ trace' = <<base64Data>> /\ UNCHANGED retained

StrictEffect == StrictSync /\ UNCHANGED histVars

StrictOnError == StrictImageError /\ UNCHANGED histVars

NextStrict == StrictNewEntry \/ StrictEffect \/ StrictOnError

SpecStrict == Init /\ [][NextStrict]_vars

----------------------------------------------------------------------------
(* C20 *)

\* C20: once the effect has run for an entry without an embedded image, the
\* component is in the terminal no-data state (not loading, error set,
\* empty image reference); and no preload is in flight and no retry timer
\* is armed, ever.
C20_NoDataIsTerminal ==
    /\ base64Data = NoBase64 /\ ~strictEffectPending =>
           /\ ~strictIsLoading
           /\ strictError = NoDataError
           /\ strictScreenshotSrc = NoSrc
    /\ preloads = {}
    /\ timers = {}
    /\ retryCount = 0

\* an entry without an image follows an entry whose image was displayed
C20_Witness ==
    /\ trace # <<>>
    /\ trace[1] # NoBase64
    /\ base64Data = NoBase64
    /\ ~strictEffectPending
    /\ strictError = NoDataError
    /\ strictScreenshotSrc = NoSrc

----------------------------------------------------------------------------
(* The analysis-panel specification: vision events reach the Pokemon-mode   *)
(* store and the panel renders the strict-sync screenshot of the latest     *)
(* vision entry.                                                            *)

PanelData ==
    {[vision_log |-> [text |-> "v1", screenshot_base64 |-> <<1>>]],
     [vision_log |-> [text |-> "v2", screenshot_base64 |-> <<2>>, timestamp |-> 5]],
     [vision_log |-> [text |-> "v3"]],
     [vision_log |-> [text |-> "", screenshot_base64 |-> <<1>>]],
     [response_log |-> [text |-> "r"]],
     [log_entry |-> [text |-> "t"], actions |-> 1]}

PanelMessage ==
    /\ Len(trace) < MaxPkEvents
    /\ \E data \in PanelData :
           PanelDeliver(data) /\ trace' = Append(trace, data) /\ UNCHANGED retained

PanelEffect == StrictSync /\ UNCHANGED histVars

NextPanel == PanelMessage \/ PanelEffect

SpecPanel == Init /\ [][NextPanel]_vars

----------------------------------------------------------------------------
(* C21 *)

\* the message carries a vision entry with an embedded image
EmbedsImage(data) ==
    /\ PkHasText(data, "vision_log")
    /\ "screenshot_base64" \in DOMAIN data.vision_log
    /\ data.vision_log.screenshot_base64 # NoBase64

\* C21: once the component has settled after a vision event that carries an
\* embedded image, the image it shows is exactly that payload, with status
\* ready (not loading, no error), and no preload or retry was started.
C21_EmbeddedImageIsShown ==
    trace # <<>> /\ EmbedsImage(Last(trace)) /\ ~strictEffectPending =>
        /\ strictScreenshotSrc = DataUrl(Last(trace).vision_log.screenshot_base64)
        /\ ~strictIsLoading
        /\ strictError = Null
        /\ preloads = {} /\ timers = {}

----------------------------------------------------------------------------
(* The chapter-tree specification: the game mapping receives chapter        *)
(* strings and the overlay derives the tree from it.                        *)

MaxStage == 21          \* chapter numerals 0..MaxStage

\* numerals with an optional x and an optional route suffix, the aliases,
\* and some variations of case, padding and leading zeros
ChapterStrings ==
    {Decimal(n) \o x \o suffix :
        n \in 0..MaxStage, x \in {<<>>, <<"x">>}, suffix \in {<<>>, <<"e">>, <<"p">>}}
    \cup {<<>>, <<"P">>, <<"p">>, <<"F">>, <<"f">>, <<"5", "X">>, <<"0", "9">>,
          <<" ", "7", " ">>, <<"1", "2", "E">>, <<"x">>, <<"1", "1", "x", "x">>,
          <<"p", "r", "o", "l", "o", "g", "u", "e">>,
          <<"f", "i", "n", "a", "l">>}

ChapterMsgs ==
    {[type |-> "state_update", payload |-> [chapter |-> [number |-> raw]]] :
        raw \in ChapterStrings}

\* a snapshot without a chapter
NewGameMsg == [type |-> "state_snapshot", payload |-> INITIAL_GAME_STATE]

TreeUpdate ==
    \E m \in ChapterMsgs : StateUpdate(m) /\ UNCHANGED histVars

TreeSnapshot == StateSnapshot(NewGameMsg) /\ UNCHANGED histVars

NextTree == TreeUpdate \/ TreeSnapshot

SpecTree == Init /\ [][NextTree]_vars

\* the tree the overlay renders
chapterTree == buildChapterTreeState(gameState)

\* positions of the tree's list whose node is rendered as current
CurrentPositions ==
    {i \in DOMAIN chapterTree.chapters :
        getNodeStatus(chapterTree, chapterTree.chapters[i].id) = "current"}

----------------------------------------------------------------------------
(* C22 *)

\* C22: for the chapter string "11x" the route is the default route
\* (eirika), stage 11 of that route is marked current, and the stages
\* numbered 1 through 10 of that route's list are completed.
C22_Stage11xOnDefaultRoute ==
    ChapterString(gameState) = <<"1", "1", "x">> =>
        /\ chapterTree.currentRoute = "eirika"
        /\ \E i \in CurrentPositions :
               chapterTree.chapters[i].number \in {<<"1", "1">>, <<"1", "1", "x">>}
        /\ \A i \in DOMAIN chapterTree.chapters :
               chapterTree.chapters[i].number \in {Decimal(n) : n \in 1..10} =>
                   getNodeStatus(chapterTree, chapterTree.chapters[i].id) = "completed"

----------------------------------------------------------------------------
(* C23 *)

\* the raw identifiers that name a stage of the game, each with the number
\* of the stage it names and, inside the branch, its route
StageNames ==
    {[raw |-> <<"P">>, number |-> <<"P">>, route |-> Null],
     [raw |-> <<"F">>, number |-> <<"F">>, route |-> Null],
     [raw |-> <<"5", "x">>, number |-> <<"5", "x">>, route |-> Null]}
    \cup {[raw |-> Decimal(n), number |-> Decimal(n), route |-> Null] :
             n \in (1..8) \cup (16..20)}
    \cup {[raw |-> Decimal(n), number |-> Decimal(n), route |-> "eirika"] : n \in 9..15}
    \cup {[raw |-> Decimal(n) \o <<"e">>, number |-> Decimal(n), route |-> "eirika"] :
             n \in 9..15}
    \cup {[raw |-> Decimal(n) \o <<"p">>, number |-> Decimal(n), route |-> "ephraim"] :
             n \in 9..15}

\* C23: for every raw identifier that names a stage, exactly that stage is
\* marked current, every stage before it in the tree's list is completed
\* and every later one is future.
C23_ExactlyTheNamedStageIsCurrent ==
    \A name \in StageNames :
        ChapterString(gameState) = name.raw =>
            /\ Cardinality(CurrentPositions) = 1
            /\ \A c \in CurrentPositions :
                   /\ chapterTree.chapters[c].number = name.number
                   /\ name.route # Null => chapterTree.currentRoute = name.route
                   /\ \A i \in DOMAIN chapterTree.chapters :
                          getNodeStatus(chapterTree, chapterTree.chapters[i].id) =
                              IF i < c THEN "completed"
                              ELSE IF i = c THEN "current" ELSE "future"

----------------------------------------------------------------------------
(* The unit-status specification: the server reports a unit whose hit       *)
(* points and maximum change by one at a time.                              *)

MaxHp == 100            \* hit points 0..MaxHp

UnitReport(hp, maxHp) ==
    [type |-> "state_update",
     payload |-> [units |-> <<[id |-> "u1", hp |-> hp, maxHp |-> maxHp]>>]]

\* the reports that can follow the current state
NextReports ==
    IF gameState.units = <<>>
    THEN {UnitReport(1, 1)}
    ELSE LET u == gameState.units[1] IN
         {UnitReport(hp, maxHp) :
             hp \in {u.hp - 1, u.hp, u.hp + 1} \cap (0..MaxHp),
             maxHp \in {u.maxHp - 1, u.maxHp, u.maxHp + 1} \cap (1..MaxHp)}

UnitDamaged ==
    \E m \in NextReports :
        /\ m.payload.units[1].hp <= m.payload.units[1].maxHp
        /\ gameState.units # <<>> => m.payload.units[1].hp < gameState.units[1].hp
        /\ StateUpdate(m) /\ UNCHANGED histVars

UnitHealed ==
    \E m \in NextReports :
        /\ m.payload.units[1].hp <= m.payload.units[1].maxHp
        /\ gameState.units # <<>>
        /\ m.payload.units[1].hp >= gameState.units[1].hp
        /\ StateUpdate(m) /\ UNCHANGED histVars

NextUnits == UnitDamaged \/ UnitHealed

SpecUnits == Init /\ [][NextUnits]_vars

----------------------------------------------------------------------------
(* C24 *)

\* C24: for integers 0 <= hp <= maxHp with maxHp > 0, the status is
\* critical iff 100 hp <= 25 maxHp, wounded iff 25 maxHp < 100 hp <= 50 maxHp,
\* and healthy otherwise.
C24_HPBandsInclusiveBelow ==
    \A i \in DOMAIN gameState.units :
        LET hp == gameState.units[i].hp
            maxHp == gameState.units[i].maxHp
        IN  hpStatuses[i] =
                IF 100 * hp <= 25 * maxHp THEN "critical"
                ELSE IF 100 * hp <= 50 * maxHp THEN "wounded"
                ELSE "healthy"

\* a unit stands exactly on the upper boundary of the wounded band
C24_Witness ==
    /\ gameState.units # <<>>
    /\ gameState.units[1].hp = 50
    /\ gameState.units[1].maxHp = 100
    /\ hpStatuses[1] = "wounded"

----------------------------------------------------------------------------
(* The vision-analysis specification: vision analyses arrive as vision log  *)
(* events and the panel structures the text of each.                        *)

MaxAnalyses == 3        \* vision analyses delivered

AnalysisLogged ==
    /\ Len(pkLogs) < MaxAnalyses
    /\ \E text \in AnalysisTexts :
           PkHandleGameUpdate([vision_log |-> [text |-> text]])
    /\ UNCHANGED histVars

AnalysisLoggedWithId ==
    /\ Len(pkLogs) < MaxAnalyses
    /\ \E text \in AnalysisTexts :
           PkHandleGameUpdate([vision_log |-> [text |-> text, id |-> <<"v">>]])
    /\ UNCHANGED histVars

NextAnalysis == AnalysisLogged \/ AnalysisLoggedWithId

SpecAnalysis == Init /\ [][NextAnalysis]_vars

\* the structured list rendered for each vision entry
visionLists ==
    [i \in {j \in DOMAIN pkLogs : pkLogs[j].is_vision} |->
        formatVisionAnalysisAsList(Chars(pkLogs[i].text))]

----------------------------------------------------------------------------
(* C25 *)

\* the items of a list under one label
ItemsLabelled(items, label) == {i \in DOMAIN items : items[i].label = label}

\* the category headers of the text form that the structuring knows
KnownHeaders ==
    {<<"R", "e", "a", "d", "a", "b", "l", "e", " ", "T", "e", "x", "t">>,
     <<"C", "h", "a", "r", "a", "c", "t", "e", "r", " ", "P", "o", "s", "i", "t", "i", "o", "n">>,
     <<"V", "i", "s", "i", "b", "l", "e", " ", "N", "P", "C", "s">>,
     <<"U", "I", " ", "E", "l", "e", "m", "e", "n", "t", "s">>}

\* the content under a header of the text form, empty when the header is absent
HeaderContent(text, header) ==
    LET sections == SplitSections(text)
        under == {i \in DOMAIN sections :
                     /\ ColonIndex(Trim(sections[i])) > 0
                     /\ Trim(SubSeq(Trim(sections[i]), 1,
                                    ColonIndex(Trim(sections[i])) - 1)) = header}
    IN  IF under = {} THEN <<>>
        ELSE LET s == Trim(sections[CHOOSE i \in under : TRUE]) IN
             Trim(SubSeq(s, ColonIndex(s) + 1, Len(s)))

\* a value that is to be left out of the list
IsOmittedValue(value) == value = <<>> \/ value = Unreadable \/ value = NoneValue

\* C25: for either payload form, every known field whose value is absent,
\* "unreadable" or "none" produces no item in the rendered list, and every
\* known field with any other value produces exactly one item.
C25_OmittedValuesGiveNoItem ==
    \A i \in DOMAIN visionLists :
        LET text == Chars(pkLogs[i].text)
            items == visionLists[i]
        IN  IF JsonParses(JsonMatch(text))
            THEN LET data == JsonParse(JsonMatch(text)) IN
                 \A n \in DOMAIN VISION_FIELDS :
                     LET f == VISION_FIELDS[n]
                         value == IF f.key \in DOMAIN data THEN data[f.key] ELSE <<>>
                     IN  Cardinality(ItemsLabelled(items, f.label))
                             = IF IsOmittedValue(value) THEN 0 ELSE 1
            ELSE \A header \in KnownHeaders :
                     Cardinality(ItemsLabelled(items, SimpleLabel(header)))
                         = IF IsOmittedValue(HeaderContent(text, header))
                           THEN 0 ELSE 1

----------------------------------------------------------------------------
(* The text-parser specification: the first thought of a session arrives    *)
(* and the overlay's effect turns it into a ThoughtEntry.                   *)

MaxWords == 4           \* word tokens of a thought
MaxPieces == 3          \* semicolon-separated pieces of an action section

WordTokens == {<<"a">>, <<"A">>, <<"L", "E", "F", "T">>, <<"u", "p">>, <<"a", "t">>}

PieceTokens == {<<"A">>, <<"a">>, <<"B">>, <<>>}

\* the sequences of 1..n elements of S
SeqsUpTo(S, n) == UNION {[1..k -> S] : k \in 1..n}

WordTexts == {Join(ws, <<" ">>) : ws \in SeqsUpTo(WordTokens, MaxWords)}

ActionTexts ==
    {<<"A", "C", "T", "I", "O", "N", ":", " ">> \o Join(ps, <<";">>) : ps \in SeqsUpTo(PieceTokens, MaxPieces)}

ParserMsgs ==
    {[type |-> "ai_thought", payload |-> [thought |-> t]] :
         t \in WordTexts \cup ActionTexts}

ParserThought ==
    /\ aiThoughts = <<>>
    /\ \E m \in ParserMsgs : AiThought(m)
    /\ UNCHANGED histVars

ParserEffect == ThoughtEffect /\ UNCHANGED histVars

NextParser == ParserThought \/ ParserEffect

SpecParser == Init /\ [][NextParser]_vars

----------------------------------------------------------------------------
(* C26 *)

CanonicalButtons == {BUTTON_PATTERN[n] : n \in DOMAIN BUTTON_PATTERN}

\* the words of a text of word tokens
Words(text) == Split(text, " ")

IsWordText(text) ==
    \A i \in DOMAIN Words(text) :
        /\ Words(text)[i] # <<>>
        /\ \A j \in DOMAIN Words(text)[i] : IsLetter(Words(text)[i][j])

\* the position of the first word that is button b in any case
FirstWord(text, b) ==
    CHOOSE i \in DOMAIN Words(text) :
        /\ ToUpperCase(Words(text)[i]) = b
        /\ \A j \in 1..(i - 1) : ToUpperCase(Words(text)[j]) # b

\* C26: for every sequence of word tokens, the buttons extracted are the
\* canonical button names that occur as whole words in any case, upper-cased,
\* each once, in the order of their first occurrence.
C26_ButtonsOnceInFirstOccurrenceOrder ==
    \A e \in DOMAIN thoughts :
        LET text == thoughts[e].text
            buttons == thoughts[e].buttons
        IN  IsWordText(text) =>
                /\ {buttons[i] : i \in DOMAIN buttons}
                       = {ToUpperCase(Words(text)[i]) : i \in DOMAIN Words(text)}
                             \cap CanonicalButtons
                /\ \A i, j \in DOMAIN buttons :
                       i < j => FirstWord(text, buttons[i]) < FirstWord(text, buttons[j])

\* the thought "a A LEFT a" has given the buttons A and LEFT
C26_Witness ==
    /\ thoughts # <<>>
    /\ thoughts[1].text = <<"a", " ", "A", " ", "L", "E", "F", "T", " ", "a">>
    /\ thoughts[1].buttons = <<<<"A">>, <<"L", "E", "F", "T">>>>

----------------------------------------------------------------------------
(* C27 *)

\* the positions at which a piece of an action text starts and ends
PieceStarts(a) == {i \in 1..Len(a) : a[i] # ";" /\ (i = 1 \/ a[i - 1] = ";")}
PieceEnds(a) == {i \in 1..Len(a) : a[i] # ";" /\ (i = Len(a) \/ a[i + 1] = ";")}

\* the k-th smallest element of a set of numbers
Nth(S, k) == CHOOSE x \in S : Cardinality({y \in S : y < x}) = k - 1

\* C27: the buttons of an action section are its semicolon-separated pieces,
\* upper-cased, the empty pieces dropped, in their order and as often as they
\* occur.
C27_ActionButtonsKeepOrderAndRepeats ==
    \A e \in DOMAIN thoughts :
        LET a == thoughts[e].action
            buttons == thoughts[e].actionButtons
        IN  a # <<>> =>
                /\ Len(buttons) = Cardinality(PieceStarts(a))
                /\ \A k \in DOMAIN buttons :
                       buttons[k] = ToUpperCase(SubSeq(a, Nth(PieceStarts(a), k),
                                                       Nth(PieceEnds(a), k)))

\* the action section "A;A;B" has given the buttons A, A, B
C27_Witness ==
    /\ thoughts # <<>>
    /\ thoughts[1].action = <<"A", ";", "A", ";", "B">>
    /\ thoughts[1].actionButtons = <<<<"A">>, <<"A">>, <<"B">>>>

----------------------------------------------------------------------------
(* The thought-buffer specification: a long run of thoughts, each different *)
(* from the one before it; the overlay's effect runs after each thought or  *)
(* after a few of them that were rendered together.                         *)

MaxThoughts == 52       \* thoughts delivered
MaxBatch == 2           \* thoughts rendered together before the effect runs

\* the k-th thought of the run
RunThought(k) == IF k % 2 = 1 THEN <<"u", "p">> ELSE <<"a">>

BufferThought ==
    /\ Len(trace) < MaxThoughts
    /\ Len(aiThoughts) - 1 - lastProcessedIndexRef < MaxBatch
    /\ LET m == [type |-> "ai_thought",
                 payload |-> [thought |-> RunThought(Len(trace) + 1)]]
       IN  AiThought(m) /\ trace' = Append(trace, m)
    /\ UNCHANGED retained

BufferEffect == ThoughtEffect /\ UNCHANGED histVars

NextBuffer == BufferThought \/ BufferEffect

SpecBuffer == Init /\ [][NextBuffer]_vars

----------------------------------------------------------------------------
(* C28 *)

\* C28: once the overlay's effect has run, the newest element of the thoughts
\* list is the entry of the thought delivered last, however many thoughts
\* came before it, also when the 50-entry raw thought buffer is full.
C28_NewestThoughtIsShown ==
    (trace # <<>> /\ ~effectPending) =>
        /\ thoughts # <<>>
        /\ Last(thoughts).text = Last(trace).payload.thought

----------------------------------------------------------------------------
(* The Pokemon-mode state specification: messages that carry state keys     *)

PkStateData ==
    {[minimapLocation |-> "Route 1"],
     [minimapLocation |-> "Route 1", actions |-> 1],
     [gameStatus |-> "Running", tokensUsed |-> 7],
     [gameStatus |-> "Paused", badges |-> <<"Boulder">>],
     [actions |-> 2, modelName |-> "m"],
     [actions |-> 3, goals |-> [primary |-> "p", secondary |-> "", tertiary |-> "t"]],
     [currentTeam |-> <<[name |-> "Pikachu", level |-> 5, type |-> "Electric",
                         hp |-> 0, maxHp |-> 20]>>],
     [actions |-> 4, log_entry |-> [text |-> "t"]]}

PkStateMessage ==
    /\ Len(trace) < MaxPkEvents
    /\ \E data \in PkStateData : PkHandleGameUpdate(data) /\ trace' = Append(trace, data)
    /\ UNCHANGED retained

SpecPkState == Init /\ [][PkStateMessage]_vars

----------------------------------------------------------------------------
(* C29 *)

\* the top-level keys of the Pokemon-mode game state
PkStateKeys == DOMAIN PK_INITIAL_GAME_STATE

\* C29: for every message, each top-level state key the message carries
\* overwrites that key in the game state and every state key it does not
\* carry is left untouched, whichever other keys the message carries.
C29_CarriedKeysOverwrite ==
    [][trace' # trace =>
          LET data == Last(trace') IN
          /\ \A key \in PkStateKeys \cap DOMAIN data :
                 pkGameState'[key] = data[key]
          /\ \A key \in PkStateKeys \ DOMAIN data :
                 pkGameState'[key] = pkGameState[key]]_vars

----------------------------------------------------------------------------
(* The allow-list specification: log_entry events of every kind of category *)

AllowListMsgs ==
    {[type |-> "log_entry", payload |-> [text |-> "m", category |-> c]] :
         c \in {"action", "ai", "movement", "system", "info", "bogus"}}
    \cup {[type |-> "log_entry", payload |-> [text |-> "m"]],
          [type |-> "log_entry", payload |-> [text |-> "", category |-> "combat"]],
          [type |-> "log_entry", payload |-> [category |-> "battle"]],
          [type |-> "log_entry"]}

AllowListLogEntry ==
    /\ Len(trace) < MaxEvents
    /\ \E m \in AllowListMsgs : LogEntry(m) /\ trace' = Append(trace, m)
    /\ UNCHANGED retained

AllowListTick == now < MaxClock /\ Tick /\ UNCHANGED histVars

NextAllowList == AllowListLogEntry \/ AllowListTick

SpecAllowList == Init /\ [][NextAllowList]_vars

----------------------------------------------------------------------------
(* C30 *)

\* the event has a text and a category of the allow-list
OnAllowList(m) ==
    /\ HasPayload(m) /\ TruthyStr(m.payload, "text")
    /\ "category" \in DOMAIN m.payload
    /\ m.payload.category \in {"movement", "combat", "action", "battle", "ai"}

\* C30: a log_entry event puts one entry, with its text and category, at the
\* head of the action log iff its text is non-empty and its category is on
\* the allow-list; any other log_entry event, one whose category is unknown
\* included, leaves the action log as it was.
C30_OnlyAllowListedEventsAreLogged ==
    [][Dispatches =>
          IF OnAllowList(Incoming)
          THEN /\ logs' # <<>>
               /\ logs'[1].message = Incoming.payload.text
               /\ logs'[1].type = Incoming.payload.category
               /\ Tail(logs') = logs
          ELSE logs' = logs]_vars

\* an event of the allow-list was logged and a later one of an unknown
\* category was not
C30_Witness ==
    /\ Len(trace) = 2
    /\ OnAllowList(trace[1])
    /\ trace[2].type = "log_entry" /\ HasPayload(trace[2])
    /\ TruthyStr(trace[2].payload, "text")
    /\ "category" \in DOMAIN trace[2].payload
    /\ ~IsKnownLogCategory(trace[2].payload.category)
    /\ Len(logs) = 1
    /\ logs[1].type = trace[1].payload.category

====
